---------------------------- MODULE Spec2Model ----------------------------
(***************************************************************************)
(* EcoSound Analyzer: the sound classification pipeline of ml-models.js    *)
(* (taxonomy mapper, noise-level estimator, WHO compliance evaluator, the  *)
(* mock fallback), the consent / upload / recording / feedback handlers of *)
(* main.js and audio-processor.js, and the map markers of map-handler.js.  *)
(*                                                                         *)
(* Numbers.  JavaScript numbers are modelled in fixed point:               *)
(*   a confidence or score c is the integer c * Unit       (1.0 = 1000),   *)
(*   a weight w is the integer w * WeightUnit              (0.85 = 85),    *)
(*   a decibel value d is the integer d * DbUnit           (1 dB = 10000), *)
(* so that baseline_db + confidence * 10 * weight is exact:                *)
(*   d * DbUnit = baseline_db * DbUnit + (c * Unit) * (w * WeightUnit).    *)
(* A JavaScript number that may be NaN is a record [nan, v].               *)
(*                                                                         *)
(* Strings that the code inspects character by character (the YAMNet class *)
(* names and the keywords) are sequences of one-character strings.         *)
(***************************************************************************)
EXTENDS Integers, Sequences, FiniteSets, TLC

VARIABLES
    \* the classification pipeline (ml-models.js)
    pc,              \* position of a pipeline run that is studied on its own
    yamnetResults,   \* argument of mapYAMNetToSoundClasses: <<[className, score]>>
    mappedResults,   \* the accumulator object of mapYAMNetToSoundClasses
    results,         \* the latest classification: <<[name, confidence, class]>>
    estimatedDb,     \* displayClassificationResults: estimatedDb (a JS number)
    whoStatus,       \* the record returned by getWHOStatus, [status, color]
    noiseLevelText,  \* number shown in #noiseLevel: Math.round(estimatedDb)
    noiseLevel,      \* argument of a direct getWHOStatus evaluation
    \* classifyAudioYAMNet (ml-models.js)
    yamnetModel,     \* window.yamnetModel is set
    scores,          \* what the model returned to the latest call that got that far
    failure,         \* what failed in the latest finished call: "none", "load", ...
    outcome,         \* how the latest finished call ended: "returned" or "threw"
    inFlight,        \* the classifyAudioYAMNet calls that await: <<[source, pc]>>
    classifyLog,     \* history: {[source, consented]} of every call made
    modelLoads,      \* history: number of yamnet.load() calls that resolved
    \* main.js, audio-processor.js, map-handler.js
    userConsented,   \* window.userConsented
    map,             \* the module variable map is non-null
    geolocation,     \* navigator.geolocation exists
    geoSetupPending, \* callbacks of setupGeolocation that are still to come
    statusMessage,   \* what the latest showStatus call showed: [message, type]
    isRecording,     \* the module variable isRecording
    recordBtn,       \* text of #recordBtn
    recorders,       \* every MediaRecorder created: <<"recording" | "stopping" | "inactive">>
    mediaRecorder,   \* the module variable mediaRecorder: an index of recorders, 0 if unset
    micRequests,     \* toggleRecording calls that await getUserMedia
    recordTimers,    \* pending setTimeout callbacks of processRecordedAudio: <<audioBlob>>
    \* addAnalysisToMap (audio-processor.js), addNoiseMarker (map-handler.js)
    markerCalls,     \* every addNoiseMarker call: <<[lat, lng, noiseLevel, confidence, added]>>
    geoRequests,     \* pending getCurrentPosition calls: <<classification[0].confidence>>
    analyses,        \* number of classifications handed to addAnalysisToMap
    \* processAudioFile (audio-processor.js)
    uploads,         \* history of the calls that passed the checks:
                     \* [accepted, success, error], three counters
    \* submitFeedback (audio-processor.js)
    feedbackText,    \* value of #feedbackText: the sequence of its UTF-16 code
                     \* units (charCodeAt), <<76, 111, 117, 100>> for 'Loud'
    feedbackRequests,\* submitFeedback calls that await fetch: <<feedback posted>>
    feedbackOutcome, \* how the latest finished submitFeedback ended
    \* showStatus (audio-processor.js): the elements and their timers
    statusDivs,      \* the statusDiv elements that exist, oldest first: the one
                     \* in #statusMessages and those a pending timer refers to
    container,       \* the statusDivs (indices) that #statusMessages contains
    statusTimers,    \* the statusDivs (indices) whose 5 second timer is pending
    \* recommend_green_spaces_bangalore (urban-planning-map.js)
    area_bounds,     \* argument: [south, north, west, east]
    budget,          \* argument
    feasible_recommendations, \* the value returned, <<>> before the call
    \* getWHOStatus of map-handler.js
    popupStatus,     \* what it returned for noiseLevel, NoStatus before the call
    \* toggleUncertainty (map-handler.js)
    uncertaintyLayer \* the module variable uncertaintyLayer is non-null

pipelineVars ==
    <<pc, yamnetResults, mappedResults, results, estimatedDb, whoStatus,
      noiseLevelText, noiseLevel>>

displayVars == <<estimatedDb, whoStatus, noiseLevelText>>

classifyVars ==
    <<yamnetModel, scores, failure, outcome, inFlight, classifyLog, modelLoads>>

recordingVars == <<isRecording, recordBtn, recorders, mediaRecorder, micRequests, recordTimers>>

statusVars == <<statusMessage, statusDivs, container, statusTimers>>

appVars ==
    <<userConsented, map, geolocation, geoSetupPending, statusVars, recordingVars>>

mapVars == <<markerCalls, geoRequests, analyses>>

feedbackVars == <<feedbackText, feedbackRequests, feedbackOutcome>>

plannerVars == <<area_bounds, budget, feasible_recommendations>>

\* what only the planner, map-handler's getWHOStatus and toggleUncertainty
\* change
toolVars == <<plannerVars, popupStatus, uncertaintyLayer>>

\* what the pipeline and the consent and recording handlers leave alone
pageVars == <<mapVars, uploads, feedbackVars, toolVars>>

vars == <<pipelineVars, classifyVars, appVars, pageVars>>

-----------------------------------------------------------------------------
(* Fixed point *)

Unit == 10 * 10 * 10
WeightUnit == 10 * 10
DbUnit == (Unit * WeightUnit) \div 10

Num(v) == [nan |-> FALSE, v |-> v]
NaN == [nan |-> TRUE, v |-> 0]

Min(a, b) == IF a <= b THEN a ELSE b

-----------------------------------------------------------------------------
(* Bounds of the model *)

\* longest sequence of (label, score) pairs handed to the mapper
MaxResults == 2

\* Math.random() is drawn from NumRandom + 1 values spread over [0, 1)
NumRandom == 3

\* classifyAudioYAMNet calls that may await at the same time
MaxPending == 1

\* MediaRecorder objects created in one run
MaxRecorders == 1

\* processAudioFile calls that pass the checks in one run
MaxUploads == 1

-----------------------------------------------------------------------------
(* ml-models.js: tables *)

SOUND_CLASSES ==
    [ Traffic      |-> [weight |-> 80, color |-> "#e74c3c", baseline_db |-> 75],
      Construction |-> [weight |-> 90, color |-> "#f39c12", baseline_db |-> 85],
      Nature       |-> [weight |-> 20, color |-> "#27ae60", baseline_db |-> 45],
      Human        |-> [weight |-> 40, color |-> "#3498db", baseline_db |-> 60],
      Industrial   |-> [weight |-> 85, color |-> "#8e44ad", baseline_db |-> 80],
      Other        |-> [weight |-> 50, color |-> "#95a5a6", baseline_db |-> 55] ]

\* Object.keys(SOUND_CLASSES): the own keys in insertion order
SoundClassKeys ==
    <<"Traffic", "Construction", "Nature", "Human", "Industrial", "Other">>

\* name.toLowerCase() for the six keys
LowerName ==
    [ Traffic |-> "traffic", Construction |-> "construction",
      Nature |-> "nature", Human |-> "human", Industrial |-> "industrial",
      Other |-> "other" ]

\* SOUND_CLASSES is an object literal: a lookup SOUND_CLASSES[name] that finds
\* no own key goes on to Object.prototype, whose members are truthy values
\* (functions, an object) without a weight or a baseline_db.
ObjectPrototypeKeys ==
    {"constructor", "toString", "toLocaleString", "valueOf", "hasOwnProperty",
     "isPrototypeOf", "propertyIsEnumerable", "__proto__",
     "__defineGetter__", "__defineSetter__", "__lookupGetter__", "__lookupSetter__"}

WHO_STANDARDS == [DAY_LIMIT |-> 55, NIGHT_LIMIT |-> 40, CRITICAL_LIMIT |-> 70]

-----------------------------------------------------------------------------
(* String.prototype.toLowerCase and String.prototype.includes *)

\* the letters that have a lower-case form, A-Z and the Latin-1 letters
UpperCase ==
    <<"A","B","C","D","E","F","G","H","I","J","K","L","M","N","O","P","Q","R",
      "S","T","U","V","W","X","Y","Z","À","Á","Â","Ã","Ä","Å","Æ","Ç","È","É",
      "Ê","Ë","Ì","Í","Î","Ï","Ð","Ñ","Ò","Ó","Ô","Õ","Ö","Ø","Ù","Ú","Û","Ü",
      "Ý","Þ">>
LowerCase ==
    <<"a","b","c","d","e","f","g","h","i","j","k","l","m","n","o","p","q","r",
      "s","t","u","v","w","x","y","z","à","á","â","ã","ä","å","æ","ç","è","é",
      "ê","ë","ì","í","î","ï","ð","ñ","ò","ó","ô","õ","ö","ø","ù","ú","û","ü",
      "ý","þ">>

\* the other characters of the alphabet of the model: printable ASCII and
\* Latin-1 characters that toLowerCase leaves as they are
UnchangedChars ==
    {" ","!","\"","#","$","%","&","'","(",")","*","+",",","-",".","/","0","1",
     "2","3","4","5","6","7","8","9",":",";","<","=",">","?","@","[","\\","]",
     "^","_","a","b","c","d","e","f","g","h","i","j","k","l","m","n","o",
     "p","q","r","s","t","u","v","w","x","y","z","{","|","}","~","¡","¢",
     "£","¤","¥","¦","§","¨","©","ª","«","¬","®","¯","°","±","²","³","´",
     "µ","¶","·","¸","¹","º","»","¼","½","¾","¿","×","ß","à","á","â","ã","ä",
     "å","æ","ç","è","é","ê","ë","ì","í","î","ï","ð","ñ","ò","ó","ô","õ","ö",
     "÷","ø","ù","ú","û","ü","ý","þ","ÿ"}

\* the code units a label is made of: toLowerCase is modelled for these only
Alphabet == {UpperCase[k] : k \in 1..Len(UpperCase)} \cup UnchangedChars

LowerOf ==
    [c \in Alphabet |->
        IF \E k \in 1..Len(UpperCase) : UpperCase[k] = c
        THEN LowerCase[CHOOSE k \in 1..Len(UpperCase) : UpperCase[k] = c]
        ELSE c]

toLowerCaseChar(c) == LowerOf[c]

toLowerCase(s) == [i \in 1..Len(s) |-> toLowerCaseChar(s[i])]

includes(s, k) ==
    \E i \in 0..(Len(s) - Len(k)) : SubSeq(s, i + 1, i + Len(k)) = k

includesAny(s, keywords) ==
    \E j \in 1..Len(keywords) : includes(s, keywords[j])

-----------------------------------------------------------------------------
(* ml-models.js: mapYAMNetToSoundClasses *)

TrafficKeywords ==
    << <<"v","e","h","i","c","l","e">>,
       <<"c","a","r">>,
       <<"t","r","a","f","f","i","c">>,
       <<"t","r","u","c","k">>,
       <<"m","o","t","o","r">> >>

ConstructionKeywords ==
    << <<"c","o","n","s","t","r","u","c","t","i","o","n">>,
       <<"d","r","i","l","l">>,
       <<"h","a","m","m","e","r">>,
       <<"s","a","w">> >>

NatureKeywords ==
    << <<"b","i","r","d">>,
       <<"w","i","n","d">>,
       <<"w","a","t","e","r">>,
       <<"r","a","i","n">>,
       <<"n","a","t","u","r","e">> >>

HumanKeywords ==
    << <<"s","p","e","e","c","h">>,
       <<"v","o","i","c","e">>,
       <<"h","u","m","a","n">>,
       <<"c","o","n","v","e","r","s","a","t","i","o","n">>,
       <<"p","e","o","p","l","e">> >>

IndustrialKeywords ==
    << <<"m","a","c","h","i","n","e">>,
       <<"i","n","d","u","s","t","r","i","a","l">>,
       <<"f","a","c","t","o","r","y">>,
       <<"e","n","g","i","n","e">> >>

\* the keyword list tested by the branch of each category ("Other" has none)
Keywords ==
    [ Traffic |-> TrafficKeywords, Construction |-> ConstructionKeywords,
      Nature |-> NatureKeywords, Human |-> HumanKeywords,
      Industrial |-> IndustrialKeywords, Other |-> <<>> ]

\* lines 62-79: the += of two IEEE doubles, on confidences in thousandths.
\* When a or b is 0, or both are multiples of 0.125, the double sum is the
\* exact sum; for other operands the double sum may differ from the exact sum
\* in its last bit (0.3 + 0.6 is less than 0.9), which thousandths cannot
\* express: the sum of such operands is not defined here.
addDoubles(a, b) ==
    CASE a = 0 \/ b = 0 \/ (a % (Unit \div 8) = 0 /\ b % (Unit \div 8) = 0) -> a + b

\* lines 53-56: every category starts at 0
initCategories == [c \in {SoundClassKeys[i] : i \in 1..Len(SoundClassKeys)} |-> 0]

\* Mutant of addResult: the branches are independent ifs instead of an
\* if / else-if chain, so a label adds to every category it has a keyword of.
addResultNoElse(m, result) ==
    LET className == toLowerCase(result.className)
        hit(c) == includesAny(className, Keywords[c])
        none == \A c \in DOMAIN Keywords : ~hit(c)
    IN  [c \in DOMAIN m |->
            IF hit(c) \/ (c = "Other" /\ none) THEN addDoubles(m[c], result.score) ELSE m[c]]

\* Mutant of addResult: the class name is not lower-cased before matching.
addResultCaseSensitive(m, result) ==
    LET className == result.className
    IN  IF includesAny(className, TrafficKeywords)
        THEN [m EXCEPT !["Traffic"] = addDoubles(@, result.score)]
        ELSE IF includesAny(className, ConstructionKeywords)
        THEN [m EXCEPT !["Construction"] = addDoubles(@, result.score)]
        ELSE IF includesAny(className, NatureKeywords)
        THEN [m EXCEPT !["Nature"] = addDoubles(@, result.score)]
        ELSE IF includesAny(className, HumanKeywords)
        THEN [m EXCEPT !["Human"] = addDoubles(@, result.score)]
        ELSE IF includesAny(className, IndustrialKeywords)
        THEN [m EXCEPT !["Industrial"] = addDoubles(@, result.score)]
        ELSE [m EXCEPT !["Other"] = addDoubles(@, result.score)]

\* Mutant of addResult: the chain tests the categories in the opposite order,
\* Industrial first and Traffic last.
addResultLastMatch(m, result) ==
    LET className == toLowerCase(result.className)
    IN  IF includesAny(className, IndustrialKeywords)
        THEN [m EXCEPT !["Industrial"] = addDoubles(@, result.score)]
        ELSE IF includesAny(className, HumanKeywords)
        THEN [m EXCEPT !["Human"] = addDoubles(@, result.score)]
        ELSE IF includesAny(className, NatureKeywords)
        THEN [m EXCEPT !["Nature"] = addDoubles(@, result.score)]
        ELSE IF includesAny(className, ConstructionKeywords)
        THEN [m EXCEPT !["Construction"] = addDoubles(@, result.score)]
        ELSE IF includesAny(className, TrafficKeywords)
        THEN [m EXCEPT !["Traffic"] = addDoubles(@, result.score)]
        ELSE [m EXCEPT !["Other"] = addDoubles(@, result.score)]

\* lines 59-80: the body of yamnetResults.forEach
addResult(m, result) ==
    LET className == toLowerCase(result.className)
    IN  IF includesAny(className, TrafficKeywords)
        THEN [m EXCEPT !["Traffic"] = addDoubles(@, result.score)]
        ELSE IF includesAny(className, ConstructionKeywords)
        THEN [m EXCEPT !["Construction"] = addDoubles(@, result.score)]
        ELSE IF includesAny(className, NatureKeywords)
        THEN [m EXCEPT !["Nature"] = addDoubles(@, result.score)]
        ELSE IF includesAny(className, HumanKeywords)
        THEN [m EXCEPT !["Human"] = addDoubles(@, result.score)]
        ELSE IF includesAny(className, IndustrialKeywords)
        THEN [m EXCEPT !["Industrial"] = addDoubles(@, result.score)]
        ELSE [m EXCEPT !["Other"] = addDoubles(@, result.score)]

\* lines 51-80: mappedResults after the forEach
RECURSIVE accumulate(_)
accumulate(rs) ==
    IF rs = <<>> THEN initCategories
    ELSE addResult(accumulate(SubSeq(rs, 1, Len(rs) - 1)), rs[Len(rs)])

\* Mutant of clampEntries: the Math.min is dropped.
clampEntriesNoMin(m) ==
    [i \in 1..Len(SoundClassKeys) |->
        [name |-> SoundClassKeys[i],
         confidence |-> m[SoundClassKeys[i]],
         class |-> LowerName[SoundClassKeys[i]]]]

\* Mutant of clampEntries: categories that received nothing are left out.
clampEntriesNonZero(m) ==
    SelectSeq(clampEntriesNoMin(m), LAMBDA e : e.confidence > 0)

\* lines 83-87: Object.entries(mappedResults).map(...)
clampEntries(m) ==
    [i \in 1..Len(SoundClassKeys) |->
        [name |-> SoundClassKeys[i],
         confidence |-> Min(m[SoundClassKeys[i]], Unit),
         class |-> LowerName[SoundClassKeys[i]]]]

\* Mutant of insertByConfidence: an element goes in front of the elements it
\* compares equal to, so the sort is not stable.
insertBeforeEquals(sorted, x) ==
    LET k == Cardinality({i \in 1..Len(sorted) : sorted[i].confidence > x.confidence})
    IN  SubSeq(sorted, 1, k) \o <<x>> \o SubSeq(sorted, k + 1, Len(sorted))

\* Array.prototype.sort with (a, b) => b.confidence - a.confidence: a stable
\* sort, descending by confidence (insertion of each element, in order, behind
\* every element that does not compare after it).
insertByConfidence(sorted, x) ==
    LET k == Cardinality({i \in 1..Len(sorted) : sorted[i].confidence >= x.confidence})
    IN  SubSeq(sorted, 1, k) \o <<x>> \o SubSeq(sorted, k + 1, Len(sorted))

RECURSIVE sortByConfidence(_)
sortByConfidence(s) ==
    IF s = <<>> THEN <<>>
    ELSE insertByConfidence(sortByConfidence(SubSeq(s, 1, Len(s) - 1)), s[Len(s)])

\* lines 50-91
mapYAMNetToSoundClasses(rs) == sortByConfidence(clampEntries(accumulate(rs)))

-----------------------------------------------------------------------------
(* ml-models.js: getWHOStatus, displayClassificationResults *)

\* Mutant of getWHOStatus: the first comparison is turned round (<= for >=).
getWHOStatusTurned(level) ==
    IF ~level.nan /\ level.v <= WHO_STANDARDS.CRITICAL_LIMIT * DbUnit
    THEN [status |-> "Critical - Health Risk", color |-> "#e74c3c"]
    ELSE IF ~level.nan /\ level.v >= WHO_STANDARDS.DAY_LIMIT * DbUnit
    THEN [status |-> "Exceeds WHO Daytime Limit", color |-> "#f39c12"]
    ELSE [status |-> "Within Safe Limits", color |-> "#27ae60"]

\* Mutant of getWHOStatus: the comparisons are strict (> instead of >=).
getWHOStatusStrict(level) ==
    IF ~level.nan /\ level.v > WHO_STANDARDS.CRITICAL_LIMIT * DbUnit
    THEN [status |-> "Critical - Health Risk", color |-> "#e74c3c"]
    ELSE IF ~level.nan /\ level.v > WHO_STANDARDS.DAY_LIMIT * DbUnit
    THEN [status |-> "Exceeds WHO Daytime Limit", color |-> "#f39c12"]
    ELSE [status |-> "Within Safe Limits", color |-> "#27ae60"]

\* lines 141-149 (a comparison with NaN is false)
getWHOStatus(level) ==
    IF ~level.nan /\ level.v >= WHO_STANDARDS.CRITICAL_LIMIT * DbUnit
    THEN [status |-> "Critical - Health Risk", color |-> "#e74c3c"]
    ELSE IF ~level.nan /\ level.v >= WHO_STANDARDS.DAY_LIMIT * DbUnit
    THEN [status |-> "Exceeds WHO Daytime Limit", color |-> "#f39c12"]
    ELSE [status |-> "Within Safe Limits", color |-> "#27ae60"]

\* line 111: SOUND_CLASSES[dominant.name] || { weight: 0.5, baseline_db: 45 }
\* hasProfile is FALSE for a truthy value that has no weight and no baseline_db
soundClassConfig(name) ==
    IF name \in DOMAIN SOUND_CLASSES
    THEN [hasProfile |-> TRUE, weight |-> SOUND_CLASSES[name].weight,
          baseline_db |-> SOUND_CLASSES[name].baseline_db]
    ELSE IF name \in ObjectPrototypeKeys
    THEN [hasProfile |-> FALSE, weight |-> 0, baseline_db |-> 0]
    ELSE [hasProfile |-> TRUE, weight |-> 50, baseline_db |-> 45]

\* Mutant of estimateDb: 1 - confidence is used in place of the confidence.
estimateDbComplement(dominant) ==
    LET config == soundClassConfig(dominant.name)
    IN  IF config.hasProfile
        THEN Num(config.baseline_db * DbUnit
                    + (Unit - dominant.confidence) * config.weight)
        ELSE NaN

\* Mutant of estimateDb: the category weight is left out of the product.
estimateDbNoWeight(dominant) ==
    LET config == soundClassConfig(dominant.name)
    IN  IF config.hasProfile
        THEN Num(config.baseline_db * DbUnit + dominant.confidence * WeightUnit)
        ELSE NaN

\* line 112: config.baseline_db + (dominant.confidence * 10 * config.weight);
\* undefined + (c * 10 * undefined) is NaN
estimateDb(dominant) ==
    LET config == soundClassConfig(dominant.name)
    IN  IF config.hasProfile
        THEN Num(config.baseline_db * DbUnit + dominant.confidence * config.weight)
        ELSE NaN

\* Math.round of a non-negative number, in whole decibels (NaN stays NaN)
mathRound(x) == IF x.nan THEN NaN ELSE Num((x.v + DbUnit \div 2) \div DbUnit)

-----------------------------------------------------------------------------
(* ml-models.js: generateMockClassification and Array.prototype.slice *)

\* Mutant of slice: the end index is ignored, the rest of the array is kept.
sliceToEnd(s, from, to) == SubSeq(s, from + 1, Len(s))

\* s.slice(from, to) with 0 <= from <= to
slice(s, from, to) == SubSeq(s, from + 1, Min(to, Len(s)))

\* the values Math.random() is drawn from: multiples of 0.005 in [0, 1)
RandomValues == {5 * ((199 * k) \div NumRandom) : k \in 0..NumRandom}

\* Mutant of mockConfidence: the random number itself is the confidence.
mockConfidenceRaw(random) == random

\* line 97: Math.random() * 0.8 + 0.2, for the random values (multiples of
\* 0.005) whose confidence has three decimals; it is not defined for others
mockConfidence(random) ==
    CASE (random * 8) % 10 = 0 -> (random * 8) \div 10 + 2 * (Unit \div 10)

\* lines 94-103; randoms[i] is the value of the i-th Math.random() call
generateMockClassification(randoms) ==
    sortByConfidence(
        [i \in 1..Len(SoundClassKeys) |->
            [name |-> SoundClassKeys[i],
             confidence |-> mockConfidence(randoms[i]),
             class |-> LowerName[SoundClassKeys[i]]]])

-----------------------------------------------------------------------------
(* Inputs *)

\* YAMNet class names, and the two labels of the documented scenario
LabelCarEngine == <<"c","a","r"," ","e","n","g","i","n","e">>
LabelSpeechLower == <<"s","p","e","e","c","h">>
LabelSpeech == <<"S","p","e","e","c","h">>
LabelCar == <<"C","a","r">>
LabelDrill == <<"D","r","i","l","l">>
LabelEngine == <<"E","n","g","i","n","e">>
LabelMusic == <<"M","u","s","i","c">>
LabelTrain == <<"T","r","a","i","n">>

ClassNames ==
    {LabelCarEngine, LabelSpeechLower, LabelSpeech, LabelCar, LabelDrill,
     LabelEngine, LabelMusic, LabelTrain}

\* scores 0, 0.25, 0.5, 0.75: multiples of 0.25, whose sums addDoubles defines
Scores == {0, Unit \div 4, Unit \div 2, 3 * (Unit \div 4)}

YamnetResult == [className : ClassNames, score : Scores]

ResultSeqs == UNION {[1..n -> YamnetResult] : n \in 0..MaxResults}

\* the six Math.random() values of one generateMockClassification call
RandomDraws == [1..Len(SoundClassKeys) -> RandomValues]

ScenarioInput ==
    << [className |-> LabelCarEngine, score |-> 600],
       [className |-> LabelSpeechLower, score |-> 300] >>

-----------------------------------------------------------------------------
(* Initial values *)

NoStatus == [status |-> "", color |-> ""]

NoMessage == [message |-> "", type |-> ""]

\* nothing was mapped or displayed yet
PipelineIdle ==
    /\ yamnetResults = <<>>
    /\ mappedResults = initCategories
    /\ results = <<>>
    /\ estimatedDb = Num(0)
    /\ whoStatus = NoStatus
    /\ noiseLevelText = Num(0)
    /\ noiseLevel = Num(0)

\* ml-models.js as loaded: no model, no call made
ClassifyIdle ==
    /\ yamnetModel = FALSE
    /\ scores = <<>>
    /\ failure = "none"
    /\ outcome = "none"
    /\ inFlight = <<>>
    /\ classifyLog = {}
    /\ modelLoads = 0

\* main.js line 8, audio-processor.js lines 7-9, map-handler.js line 210
PageLoaded ==
    /\ userConsented = FALSE
    /\ map = FALSE
    /\ geoSetupPending = 0
    /\ statusMessage = NoMessage
    /\ isRecording = FALSE
    /\ recordBtn = "Start Recording"
    /\ recorders = <<>>
    /\ mediaRecorder = 0
    /\ micRequests = 0
    /\ recordTimers = <<>>
    /\ markerCalls = <<>>
    /\ geoRequests = <<>>
    /\ analyses = 0
    /\ uploads = [accepted |-> 0, success |-> 0, error |-> 0]
    /\ feedbackText = <<>>
    /\ feedbackRequests = <<>>
    /\ feedbackOutcome = "none"
    /\ statusDivs = <<>>
    /\ container = {}
    /\ statusTimers = {}
    /\ popupStatus = [status |-> "", color |-> ""]
    /\ uncertaintyLayer = FALSE

\* the page, and no call of the planner
AppIdle ==
    /\ PageLoaded
    /\ area_bounds = [south |-> 0, north |-> 0, west |-> 0, east |-> 0]
    /\ budget = 0
    /\ feasible_recommendations = <<>>

-----------------------------------------------------------------------------
(* The pipeline: mapYAMNetToSoundClasses, then displayClassificationResults *)

MapYAMNet ==
    /\ pc = "input"
    /\ mappedResults' = accumulate(yamnetResults)
    /\ results' = mapYAMNetToSoundClasses(yamnetResults)
    /\ pc' = "mapped"
    /\ UNCHANGED <<yamnetResults, displayVars, noiseLevel, classifyVars, appVars,
                   pageVars>>

\* ml-models.js lines 106-123 (the DOM writes kept are #whoStatus and #noiseLevel)
DisplayClassificationResults ==
    /\ pc = "mapped"
    /\ results # <<>>
    /\ estimatedDb' = estimateDb(results[1])
    /\ whoStatus' = getWHOStatus(estimateDb(results[1]))
    /\ noiseLevelText' = mathRound(estimateDb(results[1]))
    /\ pc' = "displayed"
    /\ UNCHANGED <<yamnetResults, mappedResults, results, noiseLevel, classifyVars, appVars,
                   pageVars>>

\* results[0] is undefined for an empty array: dominant.name throws a TypeError
DisplayThrows ==
    /\ pc = "mapped"
    /\ results = <<>>
    /\ pc' = "threw"
    /\ UNCHANGED <<yamnetResults, mappedResults, results, displayVars, noiseLevel,
                   classifyVars, appVars,
                   pageVars>>

\* model outputs in which two categories both collect more than 1.0: two
\* Traffic labels and two Construction labels, each of score 0.5 or 0.75
SaturatingInputs ==
    {[i \in 1..4 |-> [className |-> IF i <= 2 THEN LabelCar ELSE LabelDrill,
                      score |-> sc[i]]] :
        sc \in [1..4 -> {Unit \div 2, 3 * (Unit \div 4)}]}

MapperInit ==
    /\ pc = "input"
    /\ yamnetResults \in ResultSeqs \cup SaturatingInputs \cup {ScenarioInput}
    /\ mappedResults = initCategories
    /\ results = <<>>
    /\ estimatedDb = Num(0)
    /\ whoStatus = NoStatus
    /\ noiseLevelText = Num(0)
    /\ noiseLevel = Num(0)
    /\ ClassifyIdle
    /\ AppIdle
    /\ geolocation = TRUE

MapperNext == MapYAMNet \/ DisplayClassificationResults

SpecMapper == MapperInit /\ [][MapperNext]_vars

-----------------------------------------------------------------------------
(* displayClassificationResults called with any classification *)

DisplayNames ==
    {SoundClassKeys[i] : i \in 1..Len(SoundClassKeys)}
        \cup {"Siren", "toString", "constructor", "__proto__"}

\* confidences 0, 0.05, ..., 1
DisplayConfidences == {k * (Unit \div 20) : k \in 0..20}

DisplayInit ==
    /\ pc = "mapped"
    /\ results \in {<<>>} \cup
          {<<[name |-> n, confidence |-> c, class |-> ""]>> :
              n \in DisplayNames, c \in DisplayConfidences}
    /\ yamnetResults = <<>>
    /\ mappedResults = initCategories
    /\ estimatedDb = Num(0)
    /\ whoStatus = NoStatus
    /\ noiseLevelText = Num(0)
    /\ noiseLevel = Num(0)
    /\ ClassifyIdle
    /\ AppIdle
    /\ geolocation = TRUE

DisplayNext == DisplayClassificationResults \/ DisplayThrows

SpecDisplay == DisplayInit /\ [][DisplayNext]_vars

-----------------------------------------------------------------------------
(* getWHOStatus evaluated on any level *)

\* highest decibel value evaluated
MaxDb == 100

\* every tenth of a decibel up to MaxDb, and the values next to the limits
Levels ==
    {k * (DbUnit \div 10) : k \in 0..(MaxDb * 10)}
        \cup {WHO_STANDARDS.NIGHT_LIMIT * DbUnit - 1,
              WHO_STANDARDS.DAY_LIMIT * DbUnit - 1,
              WHO_STANDARDS.CRITICAL_LIMIT * DbUnit - 1}

\* Mutant of mapHandler_getWHOStatus: the first threshold is 75 instead of 70.
mapHandler_getWHOStatusLate(level) ==
    IF ~level.nan /\ level.v >= 75 * DbUnit
    THEN [status |-> "Critical - Health Risk", color |-> "#e74c3c"]
    ELSE IF ~level.nan /\ level.v >= 55 * DbUnit
    THEN [status |-> "Exceeds WHO Daytime Limit", color |-> "#f39c12"]
    ELSE [status |-> "Within Safe Limits", color |-> "#27ae60"]

\* map-handler.js lines 347-355: getWHOStatus of the map module, with the
\* thresholds written as literals (a comparison with NaN is false)
mapHandler_getWHOStatus(level) ==
    IF ~level.nan /\ level.v >= 70 * DbUnit
    THEN [status |-> "Critical - Health Risk", color |-> "#e74c3c"]
    ELSE IF ~level.nan /\ level.v >= 55 * DbUnit
    THEN [status |-> "Exceeds WHO Daytime Limit", color |-> "#f39c12"]
    ELSE [status |-> "Within Safe Limits", color |-> "#27ae60"]

\* map-handler.js line 312: getWHOStatus(noiseLevel) of the map module is
\* applied to the same level
EvaluateMapHandlerWHO ==
    /\ pc \in {"level", "evaluated"}
    /\ popupStatus = NoStatus
    /\ popupStatus' = mapHandler_getWHOStatus(noiseLevel)
    /\ UNCHANGED <<pipelineVars, classifyVars, appVars, mapVars, uploads, feedbackVars,
                   plannerVars, uncertaintyLayer>>

EvaluateWHO ==
    /\ pc = "level"
    /\ whoStatus' = getWHOStatus(noiseLevel)
    /\ pc' = "evaluated"
    /\ UNCHANGED <<yamnetResults, mappedResults, results, estimatedDb,
                   noiseLevelText, noiseLevel, classifyVars, appVars,
                   pageVars>>

WHOInit ==
    /\ pc = "level"
    /\ noiseLevel \in {Num(v) : v \in Levels} \cup {NaN}
    /\ yamnetResults = <<>>
    /\ mappedResults = initCategories
    /\ results = <<>>
    /\ estimatedDb = Num(0)
    /\ whoStatus = NoStatus
    /\ noiseLevelText = Num(0)
    /\ ClassifyIdle
    /\ AppIdle
    /\ geolocation = TRUE

WHONext ==
    \/ EvaluateWHO
    \/ EvaluateMapHandlerWHO

SpecWHO == WHOInit /\ [][WHONext]_vars

-----------------------------------------------------------------------------
(* Helpers of the handlers *)

\* audio-processor.js lines 154-158: the statusDiv that showStatus(message,
\* type) creates
showStatus(message, type) == [message |-> message, type |-> type]

\* the number of status timers that are pending at a time
MaxStatusTimers == 1

\* the status elements of the page
StatusElements ==
    [statusMessage |-> statusMessage, statusDivs |-> statusDivs,
     container |-> container, statusTimers |-> statusTimers]

\* the elements of divs whose index is in I, in their order
RECURSIVE onlyDivs(_, _)
onlyDivs(divs, I) ==
    IF divs = <<>> THEN <<>>
    ELSE onlyDivs(SubSeq(divs, 1, Len(divs) - 1), I)
            \o (IF Len(divs) \in I THEN <<divs[Len(divs)]>> ELSE <<>>)

\* the index that element i has among the elements whose index is in I
indexAmong(I, i) == Cardinality({j \in I : j <= i})

\* lines 160 and 167: a statusDiv that was taken out of the container and
\* that no pending timer refers to is referenced by nothing; it is no element
\* of the page any more
withoutDetached(st) ==
    LET I == st.container \cup st.statusTimers
    IN  [statusMessage |-> st.statusMessage,
         statusDivs |-> onlyDivs(st.statusDivs, I),
         container |-> {indexAmong(I, i) : i \in st.container},
         statusTimers |-> {indexAmong(I, i) : i \in st.statusTimers}]

\* audio-processor.js lines 152-170: a new statusDiv replaces the content of
\* the container; a success message gets a timer of 5 seconds
showStatusOn(st, message, type) ==
    LET statusDiv == Len(st.statusDivs) + 1
    IN  withoutDetached(
            [statusMessage |-> showStatus(message, type),
             statusDivs |-> Append(st.statusDivs, showStatus(message, type)),
             container |-> {statusDiv},
             statusTimers |-> IF type = "success"
                              THEN st.statusTimers \cup {statusDiv}
                              ELSE st.statusTimers])

\* Mutant of containerAfterTimer: the callback empties the container without
\* asking whether it still contains its statusDiv.
containerAfterTimerNoCheck(c, statusDiv) == {}

\* lines 166-168: the timer callback removes its statusDiv if the container
\* still contains it
containerAfterTimer(c, statusDiv) ==
    IF statusDiv \in c THEN c \ {statusDiv} ELSE c

\* lines 165-169: the timer of statusDiv fires
statusTimerOn(st, statusDiv) ==
    withoutDetached(
        [st EXCEPT !.container = containerAfterTimer(@, statusDiv),
                   !.statusTimers = @ \ {statusDiv}])

\* the status elements become st; at most MaxStatusTimers timers are pending
SetStatus(st) ==
    /\ Cardinality(st.statusTimers) <= MaxStatusTimers
    /\ statusMessage' = st.statusMessage
    /\ statusDivs' = st.statusDivs
    /\ container' = st.container
    /\ statusTimers' = st.statusTimers

\* the message that #statusMessages displays, NoMessage when it is empty
displayed ==
    IF container = {} THEN [message |-> "", type |-> ""]
    ELSE statusDivs[CHOOSE d \in container : TRUE]

\* a handler calls showStatus(message, type)
Shows(message, type) == SetStatus(showStatusOn(StatusElements, message, type))

\* lines 165-169: the oldest pending timer fires (all timers run 5 seconds)
StatusTimerFires ==
    /\ statusTimers # {}
    /\ LET statusDiv == CHOOSE d \in statusTimers : \A e \in statusTimers : d <= e
       IN  SetStatus(statusTimerOn(StatusElements, statusDiv))
    /\ UNCHANGED <<pipelineVars, classifyVars, userConsented, map, geolocation,
                   geoSetupPending, recordingVars, pageVars>>

RemoveAt(s, i) == SubSeq(s, 1, i - 1) \o SubSeq(s, i + 1, Len(s))

-----------------------------------------------------------------------------
(* audio-processor.js: addAnalysisToMap; map-handler.js: addNoiseMarker      *)
(* A coordinate is the integer degrees * CoordUnit (1 degree = 10000), so    *)
(* that (Math.random() - 0.5) * 0.1 is exact for the random values drawn.    *)

CoordUnit == 10 * Unit

\* lines 55-56 and 69-70: the anchor 40.7128, -74.0060
AnchorLat == 407128
AnchorLng == 0 - 740060

\* Mutant of jitter: the random number is not centred (the - 0.5 is dropped).
jitterNotCentred(random) == (random * CoordUnit) \div (10 * Unit)

\* lines 55-56 and 69-70: (Math.random() - 0.5) * 0.1
jitter(random) == ((random - Unit \div 2) * CoordUnit) \div (10 * Unit)

\* lines 55-56 and 69-70: the simulated location; j is the pair of random
\* numbers drawn for the latitude and for the longitude
simulatedLocation(j) ==
    [lat |-> AnchorLat + jitter(j[1]), lng |-> AnchorLng + jitter(j[2])]

\* lines 57, 65 and 71: Math.round(45 + (classification[0].confidence * 40)),
\* in whole decibels
markerNoiseLevel(confidence) ==
    mathRound(Num(45 * DbUnit + confidence * 40 * (DbUnit \div Unit)))

\* Mutant of addNoiseMarker: the test of map is missing.
addNoiseMarkerNoGuard(lat, lng, level, confidence) ==
    [lat |-> lat, lng |-> lng, noiseLevel |-> level, confidence |-> confidence,
     added |-> TRUE]

\* map-handler.js lines 308-336: the call adds a marker unless map is null
addNoiseMarker(lat, lng, level, confidence) ==
    [lat |-> lat, lng |-> lng, noiseLevel |-> level, confidence |-> confidence,
     added |-> map]

\* the circle markers that addNoiseMarker put on the map
markersOnMap == SelectSeq(markerCalls, LAMBDA m : m.added)

\* audio-processor.js lines 52-74, up to the return of addAnalysisToMap:
\* without navigator.geolocation the marker is placed at once, otherwise
\* getCurrentPosition is left with two callbacks
AddAnalysisToMap(classification, jitters) ==
    /\ analyses' = analyses + 1
    /\ IF ~geolocation
       THEN /\ \E j \in jitters :
                  markerCalls' =
                      Append(markerCalls,
                             addNoiseMarker(simulatedLocation(j).lat,
                                            simulatedLocation(j).lng,
                                            markerNoiseLevel(classification[1].confidence),
                                            classification[1].confidence))
            /\ UNCHANGED geoRequests
       ELSE /\ geoRequests' = Append(geoRequests, classification[1].confidence)
            /\ UNCHANGED markerCalls

\* the two Math.random() values of one simulated location
Jitters == RandomValues \X RandomValues

\* what getCurrentPosition reports: the centre of the map (map-handler.js
\* line 218) stands for the position of the device
Positions == {[lat |-> 129716, lng |-> 775946]}

\* audio-processor.js lines 62-66: the success callback of request k
PositionObtained(k) ==
    /\ k \in DOMAIN geoRequests
    /\ \E pos \in Positions :
          markerCalls' =
              Append(markerCalls,
                     addNoiseMarker(pos.lat, pos.lng, markerNoiseLevel(geoRequests[k]),
                                    geoRequests[k]))
    /\ geoRequests' = RemoveAt(geoRequests, k)
    /\ UNCHANGED <<pipelineVars, classifyVars, appVars, analyses, uploads, feedbackVars,
                   toolVars>>

\* audio-processor.js lines 67-73: the error callback of request k
PositionFailed(k, jitters) ==
    /\ k \in DOMAIN geoRequests
    /\ \E j \in jitters :
          markerCalls' =
              Append(markerCalls,
                     addNoiseMarker(simulatedLocation(j).lat, simulatedLocation(j).lng,
                                    markerNoiseLevel(geoRequests[k]), geoRequests[k]))
    /\ geoRequests' = RemoveAt(geoRequests, k)
    /\ UNCHANGED <<pipelineVars, classifyVars, appVars, analyses, uploads, feedbackVars,
                   toolVars>>

-----------------------------------------------------------------------------
(* ml-models.js: classifyAudioYAMNet, one call as a task that awaits         *)
(* yamnet.load(), the decoding of the audio and yamnetModel.classify; the    *)
(* step that ends a call also runs the continuation of its caller, which     *)
(* awaits nothing else.                                                      *)

\* lines 23-28: the test of window.yamnetModel is made when the call starts
newCall(source, audioBlob) ==
    [source |-> source, audio |-> audioBlob,
     pc |-> IF yamnetModel THEN "decode" ELSE "load"]

StartClassify(source, audioBlob) ==
    /\ inFlight' = Append(inFlight, newCall(source, audioBlob))
    /\ classifyLog' = classifyLog \cup {[source |-> source, consented |-> userConsented]}

\* displayClassificationResults(classification) as run by a caller
Display(classification) ==
    /\ estimatedDb' = estimateDb(classification[1])
    /\ whoStatus' = getWHOStatus(estimateDb(classification[1]))
    /\ noiseLevelText' = mathRound(estimateDb(classification[1]))

\* Mutant of callerStatus: the showStatus call that ends the try block is
\* missing, so the message shown before the call stays.
callerStatusNoSuccess(source, thrown) ==
    IF thrown
    THEN IF source = "upload"
         THEN showStatus("Error processing audio. Please try again.", "error")
         ELSE showStatus("Error processing recording", "error")
    ELSE IF source = "upload"
         THEN showStatus("Analyzing audio with YAMNet...", "info")
         ELSE showStatus("Processing recorded audio...", "info")

\* audio-processor.js lines 44 and 47, 139 and 141: the message a caller ends
\* with, the error message when something was thrown in its try block
callerStatus(source, thrown) ==
    IF thrown
    THEN IF source = "upload"
         THEN showStatus("Error processing audio. Please try again.", "error")
         ELSE showStatus("Error processing recording", "error")
    ELSE IF source = "upload"
         THEN showStatus("Audio analysis complete!", "success")
         ELSE showStatus("Recording analysis complete!", "success")

\* history of processAudioFile: the message msg was shown at the end of a call
recordTerminal(u, msg) ==
    [u EXCEPT
        !.success = IF msg = showStatus("Audio analysis complete!", "success")
                    THEN @ + 1 ELSE @,
        !.error = IF msg = showStatus("Error processing audio. Please try again.", "error")
                  THEN @ + 1 ELSE @]

\* The call inFlight[i] returns classification; then its caller goes on:
\*   processAudioFile, audio-processor.js lines 31-48,
\*   the timer callback of processRecordedAudio, lines 134-143,
\*   a direct caller, which only receives the value.
\* A classification without entries makes displayClassificationResults
\* throw, which both callers catch.  generatePrediction writes a random
\* number to the prediction panel, which is no part of the state kept here.
ReturnToCaller(i, classification, cause, jitters) ==
    /\ results' = classification
    /\ failure' = cause
    /\ outcome' = "returned"
    /\ inFlight' = RemoveAt(inFlight, i)
    /\ IF inFlight[i].source = "direct"
       THEN UNCHANGED <<displayVars, statusVars, mapVars, uploads>>
       ELSE /\ IF classification = <<>>
               THEN UNCHANGED <<displayVars, mapVars>>
               ELSE /\ Display(classification)
                    /\ AddAnalysisToMap(classification, jitters)
            /\ Shows(callerStatus(inFlight[i].source, classification = <<>>).message,
                     callerStatus(inFlight[i].source, classification = <<>>).type)
            /\ uploads' =
                  IF inFlight[i].source = "upload"
                  THEN recordTerminal(uploads,
                                      callerStatus(inFlight[i].source,
                                                   classification = <<>>))
                  ELSE uploads

\* lines 42-46: the catch block returns generateMockClassification()
Fallback(i, cause, draws, jitters) ==
    /\ \E r \in draws : ReturnToCaller(i, generateMockClassification(r), cause, jitters)
    /\ UNCHANGED <<pc, yamnetResults, mappedResults, noiseLevel, yamnetModel, scores,
                   classifyLog, modelLoads, userConsented, map, geolocation,
                   geoSetupPending, recordingVars, feedbackVars, toolVars>>

\* line 26: yamnet.load() resolves
LoadModelOk(i) ==
    /\ i \in DOMAIN inFlight
    /\ inFlight[i].pc = "load"
    /\ yamnetModel' = TRUE
    /\ modelLoads' = modelLoads + 1
    /\ inFlight' = [inFlight EXCEPT ![i].pc = "decode"]
    /\ UNCHANGED <<pipelineVars, scores, failure, outcome, classifyLog, appVars,
                   pageVars>>

\* line 26: yamnet is not defined, or yamnet.load() rejects
LoadModelFails(i, draws, jitters) ==
    /\ i \in DOMAIN inFlight
    /\ inFlight[i].pc = "load"
    /\ Fallback(i, "load", draws, jitters)

\* lines 31-34: the blob is read and decoded
DecodeOk(i) ==
    /\ i \in DOMAIN inFlight
    /\ inFlight[i].pc = "decode"
    /\ inFlight' = [inFlight EXCEPT ![i].pc = "classify"]
    /\ UNCHANGED <<pipelineVars, yamnetModel, scores, failure, outcome, classifyLog,
                   modelLoads,
                   appVars,
                   pageVars>>

\* lines 31-34: no AudioContext, or decodeAudioData rejects
DecodeFails(i, draws, jitters) ==
    /\ i \in DOMAIN inFlight
    /\ inFlight[i].pc = "decode"
    /\ Fallback(i, "decode", draws, jitters)

\* lines 37-40: the model answers and its first 10 entries are mapped
ClassifyOk(i, outputs, jitters) ==
    /\ i \in DOMAIN inFlight
    /\ inFlight[i].pc = "classify"
    /\ \E sc \in outputs :
          /\ scores' = sc
          /\ yamnetResults' = slice(sc, 0, 10)
          /\ mappedResults' = accumulate(slice(sc, 0, 10))
          /\ ReturnToCaller(i, mapYAMNetToSoundClasses(slice(sc, 0, 10)), "none",
                            jitters)
    /\ UNCHANGED <<pc, noiseLevel, yamnetModel, classifyLog, modelLoads, userConsented,
                   map, geolocation, geoSetupPending, recordingVars, feedbackVars,
                   toolVars>>

\* line 37: yamnetModel.classify rejects
ClassifyFails(i, draws, jitters) ==
    /\ i \in DOMAIN inFlight
    /\ inFlight[i].pc = "classify"
    /\ Fallback(i, "classify", draws, jitters)

-----------------------------------------------------------------------------
(* classifyAudioYAMNet called on its own, one call after the other *)

\* a caller invokes classifyAudioYAMNet(audioBlob); the variables that hold
\* what the previous call returned are cleared
DirectBlob == [type |-> "audio/wav", size |-> 1024]

\* a label with a Nature keyword
LabelBird == <<"B","i","r","d">>

\* a model output with one label of each category, each of score 0.2
SixCategoryOutput ==
    [i \in 1..6 |->
        [className |-> <<LabelCar, LabelDrill, LabelBird, LabelSpeech, LabelEngine,
                         LabelMusic>>[i],
         score |-> 2 * (Unit \div 10)]]

\* ten entries, Traffic and Human labels in turn, each of score 0.125
TenEntries ==
    [i \in 1..10 |->
        [className |-> IF i % 2 = 1 THEN LabelCar ELSE LabelSpeech,
         score |-> Unit \div 8]]

\* model outputs of 10, 11 and 12 entries that agree in the first ten; the
\* entries behind them would change the ranking if they were counted
LongOutputs ==
    {TenEntries \o tail :
        tail \in UNION {[1..n -> {[className |-> LabelDrill, score |-> 3 * (Unit \div 4)],
                                  [className |-> LabelCar, score |-> Unit \div 2]}]
                           : n \in 0..2}}

\* what yamnetModel.classify resolves to
ModelOutputs == ResultSeqs \cup {SixCategoryOutput} \cup LongOutputs

CallClassifyAudioYAMNet ==
    /\ inFlight = <<>>
    /\ StartClassify("direct", DirectBlob)
    /\ scores' = <<>>
    /\ results' = <<>>
    /\ yamnetResults' = <<>>
    /\ mappedResults' = initCategories
    /\ failure' = "none"
    /\ outcome' = "pending"
    /\ UNCHANGED <<pc, displayVars, noiseLevel, yamnetModel, modelLoads, appVars,
                   pageVars>>

ClassifyInit ==
    /\ pc = "call"
    /\ PipelineIdle
    /\ ClassifyIdle
    /\ AppIdle
    /\ geolocation = TRUE

ClassifyNext ==
    \/ CallClassifyAudioYAMNet
    \/ LoadModelOk(1)
    \/ LoadModelFails(1, RandomDraws, Jitters)
    \/ DecodeOk(1)
    \/ DecodeFails(1, RandomDraws, Jitters)
    \/ ClassifyOk(1, ModelOutputs, Jitters)
    \/ ClassifyFails(1, RandomDraws, Jitters)

SpecClassify == ClassifyInit /\ [][ClassifyNext]_vars

-----------------------------------------------------------------------------
(* The application: main.js, audio-processor.js *)

\* audio-processor.js line 19
AcceptedTypes == {"audio/wav", "audio/mp3", "audio/m4a", "audio/mpeg"}

\* audio-processor.js line 24: 10 * 1024 * 1024
SizeLimit == 10 * 1024 * 1024

\* the files a user selects or drops
FileTypes == AcceptedTypes \cup {"audio/ogg"}
FileSizes == {SizeLimit, SizeLimit + 1}
Files == [type : FileTypes, size : FileSizes]

\* the files selected in the application as a whole: a valid one, one of
\* another type and one that is too large
AppFiles ==
    { [type |-> "audio/wav", size |-> SizeLimit],
      [type |-> "audio/ogg", size |-> SizeLimit],
      [type |-> "audio/wav", size |-> SizeLimit + 1] }

\* what the model and Math.random() give in the application: the documented
\* scenario, and six random numbers 0.1, 0.2, ..., 0.6
AppModelOutputs == {ScenarioInput}

\* what the model answers where one analysis or two overlapping calls are
\* studied: the scenario, and one label of each category
SmallOutputs == AppModelOutputs \cup {SixCategoryOutput}
AppRandomDraws == {[i \in 1..Len(SoundClassKeys) |-> 5 * 20 * i]}

\* and 0 and 0.995 for the two random numbers of a simulated location
AppJitters == {<<0, 995>>}

\* the callbacks of setupGeolocation that may be pending at a time
MaxGeoSetups == 1

\* how initializeMap ends (map-handler.js lines 215-262): without an
\* exception, with one thrown by L.map (line 218, a container that is missing
\* or already holds a map), or with one thrown behind line 218, where map is
\* assigned already
InitializeMapResults == {"initialized", "mapThrows", "layerThrows"}

\* map-handler.js lines 215-262: the catch block shows the error
initializeMapStatus(st, result) ==
    IF result = "initialized" THEN st
    ELSE showStatusOn(st, "Error initializing map", "error")

\* main.js lines 20-35 and 99-120: acceptConsent, initializeApp.  The function
\* is window.acceptConsent and tests nothing, so it runs again when it is
\* called again.  initializeMap catches its own failure; loadSampleData shows
\* a message that the welcome message replaces in the same call;
\* setupGeolocation leaves a callback pending.
AcceptConsent ==
    /\ geolocation => geoSetupPending < MaxGeoSetups
    /\ userConsented' = TRUE
    /\ \E result \in InitializeMapResults :
          /\ map' = IF result = "mapThrows" THEN map ELSE TRUE
          /\ SetStatus(
                showStatusOn(
                    showStatusOn(
                        initializeMapStatus(StatusElements, result),
                        "Welcome to EcoSound Analyzer! Upload audio or start recording to begin.",
                        "info"),
                    "Welcome! Your privacy is protected.", "success"))
    /\ geoSetupPending' = IF geolocation THEN geoSetupPending + 1 ELSE geoSetupPending
    /\ UNCHANGED <<pipelineVars, classifyVars, geolocation, recordingVars,
                   pageVars>>

\* main.js lines 27-29: window.declineConsent tests nothing either
DeclineConsent ==
    /\ Shows("Cannot proceed without consent for data processing.", "error")
    /\ UNCHANGED <<pipelineVars, classifyVars, userConsented, map, geolocation,
                   geoSetupPending, recordingVars,
                   pageVars>>

\* main.js lines 101-108: the position callback of setupGeolocation
GeoSetupLocated ==
    /\ geoSetupPending > 0
    /\ geoSetupPending' = geoSetupPending - 1
    /\ Shows("Located at latitude, longitude", "info")
    /\ UNCHANGED <<pipelineVars, classifyVars, userConsented, map, geolocation,
                   recordingVars,
                   pageVars>>

\* main.js lines 109-112: the error callback of setupGeolocation
GeoSetupFailed ==
    /\ geoSetupPending > 0
    /\ geoSetupPending' = geoSetupPending - 1
    /\ Shows("Using default location (geolocation unavailable)", "info")
    /\ UNCHANGED <<pipelineVars, classifyVars, userConsented, map, geolocation,
                   recordingVars,
                   pageVars>>

\* map-handler.js lines 371-389: window.toggleUncertainty, checked being the
\* state of the checkbox #uncertaintyLayer.  While map is null,
\* L.layerGroup().addTo(map) throws before anything is assigned or shown.
\* (window.toggleLayer, lines 358-368, adds and removes heat layers of the
\* Leaflet map only, which is no part of the state kept here.)
ToggleUncertainty(checked) ==
    /\ IF checked
       THEN IF ~uncertaintyLayer /\ ~map
            THEN UNCHANGED <<uncertaintyLayer, statusVars>>
            ELSE /\ uncertaintyLayer' = TRUE
                 /\ Shows("Uncertainty visualization enabled", "info")
       ELSE /\ uncertaintyLayer' = FALSE
            /\ Shows("Uncertainty visualization disabled", "info")
    /\ UNCHANGED <<pipelineVars, classifyVars, userConsented, map, geolocation,
                   geoSetupPending, recordingVars, mapVars, uploads, feedbackVars,
                   plannerVars, popupStatus>>

\* audio-processor.js lines 12-33, called by handleFileSelect and handleDrop
\* (main.js lines 79-96): the checks, then the call of classifyAudioYAMNet
ProcessAudioFile(file) ==
    /\ IF ~userConsented
       THEN /\ Shows("Please accept consent first.", "error")
            /\ UNCHANGED <<inFlight, classifyLog>>
       ELSE IF file.type \notin AcceptedTypes
       THEN /\ Shows("Invalid file format. Use WAV, MP3, or M4A.", "error")
            /\ UNCHANGED <<inFlight, classifyLog>>
       ELSE IF file.size > SizeLimit
       THEN /\ Shows("File too large. Maximum 10MB allowed.", "error")
            /\ UNCHANGED <<inFlight, classifyLog>>
       ELSE /\ Len(inFlight) < MaxPending
            /\ uploads.accepted < MaxUploads
            /\ Shows("Analyzing audio with YAMNet...", "info")
            /\ StartClassify("upload", file)
    /\ uploads' =
          IF userConsented /\ file.type \in AcceptedTypes /\ file.size <= SizeLimit
          THEN [uploads EXCEPT !.accepted = @ + 1]
          ELSE uploads
    /\ UNCHANGED <<pipelineVars, yamnetModel, scores, failure, outcome, modelLoads,
                   userConsented,
                   map, geolocation, geoSetupPending, recordingVars, mapVars,
                   feedbackVars, toolVars>>

\* audio-processor.js lines 84-103 and 122-128: toggleRecording up to its
\* await when nothing records, and with stopRecording otherwise; limit bounds
\* the number of getUserMedia requests made in a run
ToggleRecordingUpTo(limit) ==
    /\ IF ~isRecording
       THEN /\ micRequests + Len(recorders) < limit
            /\ micRequests' = micRequests + 1
            /\ UNCHANGED <<isRecording, recordBtn, recorders>>
       ELSE /\ IF mediaRecorder = 0
               THEN \* line 123: stopRecording does nothing
                    /\ recordBtn' = "Start Recording"
                    /\ UNCHANGED <<isRecording, recorders>>
               ELSE IF recorders[mediaRecorder] = "recording"
               THEN /\ recorders' = [recorders EXCEPT ![mediaRecorder] = "stopping"]
                    /\ isRecording' = FALSE
                    /\ recordBtn' = "Start Recording"
               ELSE \* the recorder is inactive: mediaRecorder.stop() throws
                    \* InvalidStateError or returns at once, as the browser
                    \* implements it
                    \E stopThrows \in BOOLEAN :
                       /\ isRecording' = stopThrows
                       /\ recordBtn' = IF stopThrows THEN recordBtn
                                       ELSE "Start Recording"
                       /\ UNCHANGED recorders
            /\ UNCHANGED micRequests
    /\ UNCHANGED <<pipelineVars, classifyVars, userConsented, map, geolocation,
                   geoSetupPending, statusVars, mediaRecorder, recordTimers,
                   pageVars>>

\* how startRecording(stream) ends (lines 105-120): without an exception,
\* with one thrown by new MediaRecorder(stream) (line 106), or with one thrown
\* by mediaRecorder.start() (line 119), where mediaRecorder and isRecording
\* are assigned already
StartRecordingResults == {"started", "constructorThrows", "startThrows"}

\* lines 89-96 and 105-120: getUserMedia resolves, startRecording(stream);
\* what startRecording throws is caught in line 94
MicrophoneGranted ==
    /\ micRequests > 0
    /\ micRequests' = micRequests - 1
    /\ \E result \in StartRecordingResults :
          /\ IF result = "constructorThrows"
             THEN UNCHANGED <<recorders, mediaRecorder, isRecording>>
             ELSE /\ recorders' =
                        Append(recorders,
                               IF result = "started" THEN "recording" ELSE "inactive")
                  /\ mediaRecorder' = Len(recorders) + 1
                  /\ isRecording' = TRUE
          /\ IF result = "started"
             THEN /\ recordBtn' = "Stop Recording"
                  /\ UNCHANGED statusVars
             ELSE /\ Shows("Error: Unable to access microphone", "error")
                  /\ UNCHANGED recordBtn
    /\ UNCHANGED <<pipelineVars, classifyVars, userConsented, map, geolocation,
                   geoSetupPending, recordTimers,
                   pageVars>>

\* lines 94-96: getUserMedia rejects
MicrophoneDenied ==
    /\ micRequests > 0
    /\ micRequests' = micRequests - 1
    /\ Shows("Error: Unable to access microphone", "error")
    /\ UNCHANGED <<pipelineVars, classifyVars, userConsented, map, geolocation,
                   geoSetupPending, isRecording, recordBtn, recorders, mediaRecorder,
                   recordTimers,
                   pageVars>>

\* lines 114-117 and 130-134: the stop event of recorder k makes a Blob of
\* type 'audio/wav' from the chunks, whatever their size; processRecordedAudio
\* up to its setTimeout
OnStop(k) ==
    /\ k \in DOMAIN recorders
    /\ recorders[k] = "stopping"
    /\ recorders' = [recorders EXCEPT ![k] = "inactive"]
    /\ Shows("Processing recorded audio...", "info")
    /\ \E size \in FileSizes :
          recordTimers' = Append(recordTimers, [type |-> "audio/wav", size |-> size])
    /\ UNCHANGED <<pipelineVars, classifyVars, userConsented, map, geolocation,
                   geoSetupPending, isRecording, recordBtn, mediaRecorder, micRequests,
                   pageVars>>

\* lines 134-136: the timer callback calls classifyAudioYAMNet(audioBlob)
RecordTimerFires ==
    /\ recordTimers # <<>>
    /\ Len(inFlight) < MaxPending
    /\ recordTimers' = Tail(recordTimers)
    /\ StartClassify("recording", Head(recordTimers))
    /\ UNCHANGED <<pipelineVars, yamnetModel, scores, failure, outcome, modelLoads,
                   userConsented,
                   map, geolocation, geoSetupPending, statusVars, isRecording,
                   recordBtn, recorders, mediaRecorder, micRequests,
                   pageVars>>

\* audio-processor.js lines 174-204: submitFeedback, a call as a task that
\* awaits fetch

\* submitFeedback calls that may await at the same time
MaxFeedback == 2

\* the code units that String.prototype.trim removes: WhiteSpace (TAB, VT,
\* FF, U+FEFF and the space separators SP, U+00A0, U+1680, U+2000 to U+200A,
\* U+202F, U+205F, U+3000) and LineTerminator (LF, CR, U+2028, U+2029)
Whitespace ==
    {9, 10, 11, 12, 13, 32, 160, 5760} \cup (8192..8202)
        \cup {8232, 8233, 8239, 8287, 12288, 65279}

\* Mutant of trim: nothing is removed.
trimNothing(s) == s

\* String.prototype.trim, on a sequence of code units
RECURSIVE trim(_)
trim(s) ==
    IF s = <<>> THEN <<>>
    ELSE IF Head(s) \in Whitespace THEN trim(Tail(s))
    ELSE IF s[Len(s)] \in Whitespace THEN trim(SubSeq(s, 1, Len(s) - 1))
    ELSE s

\* what the user types into #feedbackText: nothing, ' ', ' \n', CR NBSP
\* U+2028, VT FF U+FEFF U+3000, 'Loud', ' ok ', and the zero width space
\* U+200B and U+0085, which trim does not remove
FeedbackTexts ==
    { <<>>, <<32>>, <<32, 10>>, <<13, 160, 8232>>, <<11, 12, 65279, 12288>>,
      <<76, 111, 117, 100>>, <<32, 111, 107, 32>>, <<8203>>, <<133, 32>> }

\* how the fetch of a call ends: response.ok, a response that is not ok, or a
\* rejected promise
FetchResults == {"ok", "notOk", "threw"}

\* Mutant of submitFeedbackEnds: no catch block, so a failed request leaves the
\* call at the throw.
submitFeedbackEndsNoCatch(response, shown, text) ==
    IF response = "ok"
    THEN [status |-> showStatus("Feedback submitted to server! Thank you for your report.",
                                "success"),
          text |-> <<>>, outcome |-> "resolved"]
    ELSE [status |-> shown, text |-> text, outcome |-> "rejected"]

\* lines 193-203: what a call does once its fetch has ended; shown is the
\* message on the page and text the content of the field at that moment
submitFeedbackEnds(response, shown, text) ==
    [status |->
        IF response = "ok"
        THEN showStatus("Feedback submitted to server! Thank you for your report.",
                        "success")
        ELSE showStatus("Feedback submitted! Thank you for your report.", "success"),
     text |-> <<>>,
     outcome |-> "resolved"]

\* the user edits the field
TypeFeedback(text) ==
    /\ feedbackText # text
    /\ feedbackText' = text
    /\ UNCHANGED <<pipelineVars, classifyVars, appVars, mapVars, uploads,
                   feedbackRequests, feedbackOutcome, toolVars>>

\* lines 174-191: submitFeedback up to its await; limit bounds the number of
\* calls that await at a time
SubmitFeedbackUpTo(limit) ==
    /\ IF trim(feedbackText) = <<>>
       THEN /\ Shows("Please enter some feedback before submitting.", "error")
            /\ feedbackOutcome' = "resolved"
            /\ UNCHANGED feedbackRequests
       ELSE /\ Len(feedbackRequests) < limit
            /\ feedbackRequests' = Append(feedbackRequests, feedbackText)
            /\ UNCHANGED <<statusVars, feedbackOutcome>>
    /\ UNCHANGED <<pipelineVars, classifyVars, userConsented, map, geolocation,
                   geoSetupPending, recordingVars, mapVars, uploads, feedbackText,
                   toolVars>>

\* lines 193-203: the fetch of call k has ended
FeedbackAnswered(k, response) ==
    /\ k \in DOMAIN feedbackRequests
    /\ IF submitFeedbackEnds(response, statusMessage, feedbackText).outcome = "resolved"
       THEN Shows(submitFeedbackEnds(response, statusMessage, feedbackText).status.message,
                  submitFeedbackEnds(response, statusMessage, feedbackText).status.type)
       ELSE UNCHANGED statusVars
    /\ feedbackText' = submitFeedbackEnds(response, statusMessage, feedbackText).text
    /\ feedbackOutcome' = submitFeedbackEnds(response, statusMessage, feedbackText).outcome
    /\ feedbackRequests' = RemoveAt(feedbackRequests, k)
    /\ UNCHANGED <<pipelineVars, classifyVars, userConsented, map, geolocation,
                   geoSetupPending, recordingVars, mapVars, uploads, toolVars>>

\* what the user types, and the submitFeedback calls that may await at a
\* time, in the application as a whole
AppFeedbackTexts == { <<>>, <<76, 111, 117, 100>> }
MaxAppFeedback == 1

\* the page after DOMContentLoaded: nothing consented, nothing recorded
Init ==
    /\ pc = "app"
    /\ PipelineIdle
    /\ ClassifyIdle
    /\ AppIdle
    /\ geolocation \in BOOLEAN

Next ==
    \/ AcceptConsent
    \/ DeclineConsent
    \/ GeoSetupLocated
    \/ GeoSetupFailed
    \/ StatusTimerFires
    \/ \E file \in AppFiles : ProcessAudioFile(file)
    \/ ToggleRecordingUpTo(MaxRecorders)
    \/ MicrophoneDenied
    \/ MicrophoneGranted
    \/ \E k \in 1..MaxRecorders : OnStop(k)
    \/ RecordTimerFires
    \/ \E i \in 1..MaxPending :
          \/ LoadModelOk(i)
          \/ LoadModelFails(i, AppRandomDraws, AppJitters)
          \/ DecodeOk(i)
          \/ DecodeFails(i, AppRandomDraws, AppJitters)
          \/ ClassifyOk(i, AppModelOutputs, AppJitters)
          \/ ClassifyFails(i, AppRandomDraws, AppJitters)
    \/ \E k \in 1..(MaxUploads + MaxRecorders) :
          \/ PositionObtained(k)
          \/ PositionFailed(k, AppJitters)
    \/ \E text \in AppFeedbackTexts : TypeFeedback(text)
    \/ SubmitFeedbackUpTo(MaxAppFeedback)
    \/ \E k \in 1..MaxAppFeedback, response \in FetchResults :
          FeedbackAnswered(k, response)
    \/ \E checked \in BOOLEAN : ToggleUncertainty(checked)

Spec == Init /\ [][Next]_vars

-----------------------------------------------------------------------------
(* The upload path on its own: consent, processAudioFile, the calls of       *)
(* classifyAudioYAMNet it makes and the position callbacks                   *)

UploadInit ==
    /\ pc = "upload"
    /\ PipelineIdle
    /\ ClassifyIdle
    /\ AppIdle
    /\ geolocation \in BOOLEAN

UploadNext ==
    \/ AcceptConsent
    \/ GeoSetupLocated
    \/ GeoSetupFailed
    \/ StatusTimerFires
    \/ \E file \in Files : ProcessAudioFile(file)
    \/ \E i \in 1..MaxPending :
          \/ LoadModelOk(i)
          \/ LoadModelFails(i, AppRandomDraws, AppJitters)
          \/ DecodeOk(i)
          \/ DecodeFails(i, AppRandomDraws, AppJitters)
          \/ ClassifyOk(i, AppModelOutputs, AppJitters)
          \/ ClassifyFails(i, AppRandomDraws, AppJitters)
    \/ \E k \in 1..MaxUploads :
          \/ PositionObtained(k)
          \/ PositionFailed(k, AppJitters)

SpecUpload == UploadInit /\ [][UploadNext]_vars

-----------------------------------------------------------------------------
(* One recording that is analysed, before or after the map was initialized:  *)
(* classifyAudioYAMNet returns to the timer callback of processRecordedAudio, *)
(* which displays the classification and hands it to addAnalysisToMap        *)

\* a recording was made and stopped before any consent, its timer callback
\* has called classifyAudioYAMNet, which has loaded the model and decoded the
\* blob and awaits yamnetModel.classify (ml-models.js line 37)
MapInit ==
    /\ pc = "map"
    /\ PipelineIdle
    /\ yamnetModel = TRUE
    /\ modelLoads = 1
    /\ scores = <<>>
    /\ failure = "none"
    /\ outcome = "none"
    /\ \E size \in FileSizes :
          inFlight = <<[source |-> "recording",
                        audio |-> [type |-> "audio/wav", size |-> size],
                        pc |-> "classify"]>>
    /\ classifyLog = {[source |-> "recording", consented |-> FALSE]}
    /\ userConsented = FALSE
    /\ map = FALSE
    /\ geolocation \in BOOLEAN
    /\ geoSetupPending = 0
    /\ statusMessage = showStatus("Processing recorded audio...", "info")
    /\ statusDivs = <<statusMessage>>
    /\ container = {1}
    /\ statusTimers = {}
    /\ isRecording = FALSE
    /\ recordBtn = "Start Recording"
    /\ recorders = <<"inactive">>
    /\ mediaRecorder = 1
    /\ micRequests = 0
    /\ recordTimers = <<>>
    /\ markerCalls = <<>>
    /\ geoRequests = <<>>
    /\ analyses = 0
    /\ uploads = [accepted |-> 0, success |-> 0, error |-> 0]
    /\ feedbackText = <<>>
    /\ feedbackRequests = <<>>
    /\ feedbackOutcome = "none"
    /\ popupStatus = [status |-> "", color |-> ""]
    /\ uncertaintyLayer = FALSE
    /\ area_bounds = [south |-> 0, north |-> 0, west |-> 0, east |-> 0]
    /\ budget = 0
    /\ feasible_recommendations = <<>>

MapNext ==
    \/ AcceptConsent
    \/ DeclineConsent
    \/ GeoSetupLocated
    \/ GeoSetupFailed
    \/ StatusTimerFires
    \/ ClassifyOk(1, SmallOutputs, Jitters)
    \/ ClassifyFails(1, AppRandomDraws, Jitters)
    \/ PositionObtained(1)
    \/ PositionFailed(1, Jitters)

SpecMap == MapInit /\ [][MapNext]_vars

-----------------------------------------------------------------------------
(* submitFeedback on its own, with every text and two calls awaiting         *)

FeedbackInit ==
    /\ pc = "feedback"
    /\ PipelineIdle
    /\ ClassifyIdle
    /\ AppIdle
    /\ geolocation = TRUE

FeedbackNext ==
    \/ \E text \in FeedbackTexts : TypeFeedback(text)
    \/ SubmitFeedbackUpTo(MaxFeedback)
    \/ StatusTimerFires
    \/ \E k \in 1..MaxFeedback, response \in FetchResults : FeedbackAnswered(k, response)

SpecFeedback == FeedbackInit /\ [][FeedbackNext]_vars

-----------------------------------------------------------------------------
(* Helpers of the properties *)

RECURSIVE sumScores(_)
sumScores(rs) ==
    IF rs = <<>> THEN 0 ELSE rs[Len(rs)].score + sumScores(SubSeq(rs, 1, Len(rs) - 1))

RECURSIVE sumCategories(_, _)
sumCategories(m, cs) ==
    IF cs = {} THEN 0
    ELSE LET c == CHOOSE x \in cs : TRUE IN m[c] + sumCategories(m, cs \ {c})

SixCategories == {"Traffic", "Construction", "Nature", "Human", "Industrial", "Other"}

\* position of a category in the order Traffic, ..., Industrial, Other
CategoryRank ==
    [ Traffic |-> 1, Construction |-> 2, Nature |-> 3, Human |-> 4,
      Industrial |-> 5, Other |-> 6 ]

\* the lower-cased label contains a keyword of category c (a table over the
\* class names of the inputs, computed once)
KeywordTable ==
    [label \in ClassNames |->
        [c \in SixCategories |-> includesAny(toLowerCase(label), Keywords[c])]]

hasKeywordOf(label, c) == KeywordTable[label][c]

confidenceOf(rs, c) == rs[CHOOSE i \in 1..Len(rs) : rs[i].name = c].confidence

Mapped == pc \in {"mapped", "displayed"}

-----------------------------------------------------------------------------
(* Properties of the taxonomy mapper, under SpecMapper *)

\* C1: for scores >= 0 every returned confidence lies in [0, 1], is
\* min(accumulated sum, 1.0), and the returned sequence is sorted
\* non-increasing by confidence.
C1_ClampedAndSorted ==
    Mapped =>
        /\ \A i \in 1..Len(results) :
              /\ 0 <= results[i].confidence
              /\ results[i].confidence <= Unit
              /\ results[i].confidence = Min(mappedResults[results[i].name], Unit)
        /\ \A i \in 1..(Len(results) - 1) :
              results[i].confidence >= results[i + 1].confidence

\* a sum above 1.0 was clamped and the sort moved a category to the front
C1_Witness ==
    /\ pc = "mapped"
    /\ \E c \in SixCategories : mappedResults[c] > Unit
    /\ results[1].name # "Traffic"
    /\ results[1].confidence = Unit

\* C2: for every input, the empty one included, the result has exactly six
\* entries, one for each category, none missing and none duplicated.
C2_ExactlySix ==
    Mapped =>
        /\ Len(results) = 6
        /\ \A c \in SixCategories :
              Cardinality({i \in 1..Len(results) : results[i].name = c}) = 1

C2_Witness == pc = "mapped" /\ yamnetResults = <<>> /\ Len(results) = 6

\* C3: the six accumulated scores before clamping add up to the sum of all
\* input scores, and each input label's score goes to exactly one category.
C3_SumPreserved ==
    Mapped =>
        /\ sumCategories(mappedResults, SixCategories) = sumScores(yamnetResults)
        /\ \A i \in 1..Len(yamnetResults) :
              LET d == addResult(initCategories, yamnetResults[i])
              IN  yamnetResults[i].score > 0 =>
                    /\ Cardinality({c \in SixCategories : d[c] # 0}) = 1
                    /\ \E c \in SixCategories : d[c] = yamnetResults[i].score

\* two labels, one of them with keywords of two categories, both counted
C3_Witness ==
    /\ pc = "mapped"
    /\ Len(yamnetResults) = 2
    /\ yamnetResults[1].className = LabelCarEngine
    /\ yamnetResults[1].score > 0
    /\ yamnetResults[2].score > 0
    /\ sumCategories(mappedResults, SixCategories) > Unit

\* C22: categories of equal confidence keep the order Traffic, Construction,
\* Nature, Human, Industrial, Other; so two categories whose sums both exceed
\* 1.0 come out in that order whichever raw sum is larger, and for the empty
\* input the first entry is Traffic with confidence 0.
C22_TiesKeepCategoryOrder ==
    Mapped =>
        /\ \A i, j \in 1..Len(results) :
              (i < j /\ results[i].confidence = results[j].confidence) =>
                  CategoryRank[results[i].name] < CategoryRank[results[j].name]
        /\ \A i, j \in 1..Len(results) :
              ( /\ mappedResults[results[i].name] > Unit
                /\ mappedResults[results[j].name] > Unit
                /\ CategoryRank[results[i].name] < CategoryRank[results[j].name] )
                  => i < j
        /\ yamnetResults = <<>> =>
              /\ results[1].name = "Traffic"
              /\ results[1].confidence = 0

\* Construction collected more than Traffic, both more than 1.0, and Traffic
\* is ranked first
C22_Witness ==
    /\ pc = "mapped"
    /\ mappedResults["Traffic"] > Unit
    /\ mappedResults["Construction"] > mappedResults["Traffic"]
    /\ results[1].name = "Traffic"
    /\ results[2].name = "Construction"

\* C23: a label that contains keywords of several categories counts wholly
\* for the first of them in the order Traffic, Construction, Nature, Human,
\* Industrial and adds nothing to the others: a label with 'car' and 'engine'
\* counts for Traffic only.
C23_SeveralKeywordsFirstCategory ==
    Mapped =>
        \A i \in 1..Len(yamnetResults) :
            LET r == yamnetResults[i]
                matching == {c \in SixCategories : hasKeywordOf(r.className, c)}
                first == CHOOSE c \in matching :
                            \A d \in matching : CategoryRank[c] <= CategoryRank[d]
            IN  Cardinality(matching) > 1 =>
                    /\ addResult(initCategories, r)
                          = [initCategories EXCEPT ![first] = r.score]
                    /\ (\A j \in 1..Len(yamnetResults) :
                            yamnetResults[j].className = r.className)
                          => mappedResults = [initCategories EXCEPT
                                                ![first] = sumScores(yamnetResults)]
                    /\ (r.className = LabelCarEngine /\ Len(yamnetResults) = 1) =>
                          /\ mappedResults["Traffic"] = r.score
                          /\ mappedResults["Industrial"] = 0

\* the label with 'car' and 'engine' was mapped, alone and with a score
C23_Witness ==
    /\ pc = "mapped"
    /\ Len(yamnetResults) = 1
    /\ yamnetResults[1].className = LabelCarEngine
    /\ yamnetResults[1].score > 0
    /\ mappedResults["Traffic"] = yamnetResults[1].score
    /\ mappedResults["Industrial"] = 0

\* C4 as stated: a label's score is added to a category when the lower-cased
\* label contains a keyword of it; a label with no keyword goes to Other.
\* (Scores are not negative, so a category holds at least the scores added.)
C4_AddedToEveryMatchingCategory ==
    Mapped =>
        \A c \in SixCategories :
            LET counts(r) ==
                    IF c = "Other"
                    THEN \A k \in SixCategories : ~hasKeywordOf(r.className, k)
                    ELSE hasKeywordOf(r.className, c)
            IN  mappedResults[c] >= sumScores(SelectSeq(yamnetResults, counts))

\* C4 as amended: a label's score is added to the first category, in the
\* order Traffic, Construction, Nature, Human, Industrial, whose keywords the
\* lower-cased label contains (matching is case-insensitive), and to no
\* other; a label with no keyword of the five goes to Other.
C4_AddedToFirstMatchingCategory ==
    Mapped =>
        \A c \in SixCategories :
            LET counts(r) ==
                    IF c = "Other"
                    THEN \A k \in SixCategories : ~hasKeywordOf(r.className, k)
                    ELSE /\ hasKeywordOf(r.className, c)
                         /\ \A k \in SixCategories :
                               CategoryRank[k] < CategoryRank[c] =>
                                   ~hasKeywordOf(r.className, k)
            IN  mappedResults[c] = sumScores(SelectSeq(yamnetResults, counts))

\* an upper-case label matched, a two-category label counted once, and a
\* label without keyword counted for Other
C4_Witness ==
    /\ pc = "mapped"
    /\ \E i \in 1..Len(yamnetResults) :
          /\ yamnetResults[i].className = LabelSpeech
          /\ yamnetResults[i].score > 0
    /\ \E i \in 1..Len(yamnetResults) :
          /\ yamnetResults[i].className = LabelMusic
          /\ yamnetResults[i].score > 0
    /\ mappedResults["Human"] > 0
    /\ mappedResults["Other"] > 0

\* C5: for [("car engine", 0.6), ("speech", 0.3)] the mapper gives
\* Traffic = 0.6, Human = 0.3 and 0 for the other four, Traffic ranks first,
\* the estimate is 79.8 dB and the status is Critical.
C5_Scenario ==
    (yamnetResults = ScenarioInput) =>
        /\ Mapped =>
              /\ confidenceOf(results, "Traffic") = 600
              /\ confidenceOf(results, "Human") = 300
              /\ \A c \in SixCategories \ {"Traffic", "Human"} :
                    confidenceOf(results, c) = 0
              /\ results[1].name = "Traffic"
        /\ pc = "displayed" =>
              /\ estimatedDb = Num(798000)
              /\ whoStatus.status = "Critical - Health Risk"

C5_Witness ==
    /\ yamnetResults = ScenarioInput
    /\ pc = "displayed"
    /\ noiseLevelText = Num(80)

-----------------------------------------------------------------------------
(* Properties of the estimator and the evaluator *)

\* C6: the estimate for the top-ranked pair is baseline_db + confidence * 10 *
\* weight from SOUND_CLASSES, and for a name that is not one of the six it is
\* 45 + confidence * 10 * 0.5.  (Under SpecDisplay.)
C6_TableOrDefaultProfile ==
    (pc = "displayed") =>
        LET name == results[1].name
            c == results[1].confidence
        IN  IF name \in SixCategories
            THEN estimatedDb =
                    Num(SOUND_CLASSES[name].baseline_db * DbUnit
                            + c * SOUND_CLASSES[name].weight)
            ELSE estimatedDb = Num(45 * DbUnit + c * 50)

\* C7: d < 55 is 'Within Safe Limits', 55 <= d < 70 is 'Exceeds WHO Daytime
\* Limit', d >= 70 is 'Critical - Health Risk'; 54.9 is Safe, 55.0 and 69.9
\* Exceeds, 70.0 Critical.  (Under SpecWHO.)
C7_Thresholds ==
    (pc = "evaluated" /\ ~noiseLevel.nan) =>
        LET d == noiseLevel.v IN
        /\ d < 55 * DbUnit => whoStatus.status = "Within Safe Limits"
        /\ (55 * DbUnit <= d /\ d < 70 * DbUnit) =>
              whoStatus.status = "Exceeds WHO Daytime Limit"
        /\ d >= 70 * DbUnit => whoStatus.status = "Critical - Health Risk"
        /\ d = 549000 => whoStatus.status = "Within Safe Limits"
        /\ d = 550000 => whoStatus.status = "Exceeds WHO Daytime Limit"
        /\ d = 699000 => whoStatus.status = "Exceeds WHO Daytime Limit"
        /\ d = 700000 => whoStatus.status = "Critical - Health Risk"

C7_Witness ==
    /\ pc = "evaluated"
    /\ noiseLevel = Num(550000)
    /\ whoStatus.status = "Exceeds WHO Daytime Limit"

\* C8: the status takes four values separated by the thresholds 40, 55 and
\* 70: a level below a threshold has another status than the threshold
\* itself.  (Under SpecWHO.)
C8_ThreeThresholdsSeparate ==
    (pc = "evaluated" /\ ~noiseLevel.nan) =>
        \A t \in {WHO_STANDARDS.NIGHT_LIMIT, WHO_STANDARDS.DAY_LIMIT,
                  WHO_STANDARDS.CRITICAL_LIMIT} :
            noiseLevel.v < t * DbUnit =>
                whoStatus.status # getWHOStatus(Num(t * DbUnit)).status

-----------------------------------------------------------------------------
(* Properties of the application and of classifyAudioYAMNet *)

\* C9: classifyAudioYAMNet is never invoked while window.userConsented is
\* false, whatever the user does (file selection, file drop, recording start
\* and stop).  (Under Spec.)
C9_ClassifyOnlyAfterConsent == \A call \in classifyLog : call.consented

\* C10: when the model cannot be loaded, the audio cannot be decoded or the
\* inference fails, classifyAudioYAMNet returns (it does not raise) a
\* classification with exactly six entries, one per category, each confidence
\* in [0.2, 1.0], sorted non-increasing.  (Under SpecClassify.)
C10_FallbackOnFailure ==
    (failure \in {"load", "decode", "classify"}) =>
        /\ outcome = "returned"
        /\ inFlight = <<>>
        /\ Len(results) = 6
        /\ \A c \in SixCategories :
              Cardinality({i \in 1..Len(results) : results[i].name = c}) = 1
        /\ \A i \in 1..Len(results) :
              /\ 2 * (Unit \div 10) <= results[i].confidence
              /\ results[i].confidence <= Unit
        /\ \A i \in 1..(Len(results) - 1) :
              results[i].confidence >= results[i + 1].confidence

\* a decoding failure answered by a mock whose order is not the key order
C10_Witness ==
    /\ failure = "decode"
    /\ outcome = "returned"
    /\ yamnetModel
    /\ results[1].name # "Traffic"
    /\ results[1].confidence > results[6].confidence
    /\ results[6].confidence = 2 * (Unit \div 10)

-----------------------------------------------------------------------------
(* Properties of the fallback of classifyAudioYAMNet, under SpecClassify *)

\* classifyAudioYAMNet returns value for some answer of the model
modelReturns(value) ==
    \E sc \in ModelOutputs : mapYAMNetToSoundClasses(slice(sc, 0, 10)) = value

\* generateMockClassification returns value for some random numbers
mockReturns(value) ==
    \E r \in RandomDraws : generateMockClassification(r) = value

\* what the entries in front of index 10 are
firstTen(s) == SubSeq(s, 1, IF Len(s) < 10 THEN Len(s) ELSE 10)

\* C24: only the first 10 entries of the model's output contribute to the
\* classification; an output that differs from another only in entries 11 and
\* later gives the same result.
C24_OnlyFirstTenCount ==
    (outcome = "returned" /\ failure = "none") =>
        /\ yamnetResults = firstTen(scores)
        /\ results = mapYAMNetToSoundClasses(firstTen(scores))
        /\ \A o \in LongOutputs :
              firstTen(o) = firstTen(scores) =>
                  mapYAMNetToSoundClasses(slice(o, 0, 10)) = results

\* an output of 12 entries was classified: the two Construction labels of
\* score 0.75 at the end left Construction at 0
C24_Witness ==
    /\ outcome = "returned"
    /\ failure = "none"
    /\ Len(scores) = 12
    /\ scores[11].className = LabelDrill
    /\ scores[12].className = LabelDrill
    /\ mappedResults["Construction"] = 0
    /\ results[1].name = "Traffic"

\* C11: a classification that comes from the fallback is tagged as synthetic:
\* the value returned after a failure is none that the model path returns, so
\* a caller can tell from the value which of the two produced it.
C11_FallbackDistinguishable ==
    (outcome = "returned" /\ failure # "none") =>
        ~modelReturns(results)

\* C12: when the model returns an empty list, classifyAudioYAMNet returns the
\* fallback classification and not what the mapper makes of the empty list.
C12_EmptyOutputFallsBack ==
    (outcome = "returned" /\ failure = "none" /\ scores = <<>>) =>
        /\ mockReturns(results)
        /\ results # mapYAMNetToSoundClasses(<<>>)

-----------------------------------------------------------------------------
(* Properties of the handlers, under Spec *)

validAudio(audio) == audio.type \in AcceptedTypes /\ audio.size <= SizeLimit

\* C13: an audio input whose MIME type is not audio/wav, audio/mp3, audio/m4a
\* or audio/mpeg, or whose size exceeds 10 MB, never reaches
\* classifyAudioYAMNet, on the upload path and on the recording path alike:
\* every call that is under way was given a valid input.
C13_InvalidInputRejected ==
    \A i \in DOMAIN inFlight : validAudio(inFlight[i].audio)

-----------------------------------------------------------------------------
(* Properties of the map annotation, under SpecMap *)

Abs(x) == IF x < 0 THEN 0 - x ELSE x

\* C14: the decibel value of the map marker of a classification equals the
\* estimator's output for its top-ranked pair, as the results panel shows it
\* (Math.round of baseline_db + confidence * 10 * weight).
C14_MarkerShowsEstimate ==
    (outcome = "returned" /\ results[1].name \in DOMAIN SOUND_CLASSES) =>
        \A k \in DOMAIN markerCalls :
            markerCalls[k].noiseLevel = mathRound(estimateDb(results[1]))

\* C15: each classification handed to addAnalysisToMap produces exactly one
\* map annotation: it has one addNoiseMarker call (or its position request
\* is still under way), and every such call added one marker to the map.
C15_OneMarkerPerAnalysis ==
    /\ Len(markerCalls) + Len(geoRequests) = analyses
    /\ Len(markersOnMap) = Len(markerCalls)

\* C16: without geolocation, or when the position request failed, the
\* coordinate passed to addNoiseMarker is within 0.05 of 40.7128 in latitude
\* and within 0.05 of -74.0060 in longitude, whatever Math.random() returns;
\* any other marker is at the position that was reported.
C16_JitterWithinBounds ==
    \A k \in DOMAIN markerCalls :
        LET m == markerCalls[k] IN
        (~geolocation \/ [lat |-> m.lat, lng |-> m.lng] \notin Positions) =>
            /\ Abs(m.lat - AnchorLat) <= CoordUnit \div 20
            /\ Abs(m.lng - AnchorLng) <= CoordUnit \div 20

\* the position request failed, and the random numbers 0 and 0.995 gave the
\* latitude 40.6628 and the longitude -73.9565
C16_Witness ==
    /\ geolocation
    /\ Len(markerCalls) = 1
    /\ markerCalls[1].lat = AnchorLat - CoordUnit \div 20
    /\ markerCalls[1].lng = AnchorLng + 495

\* C28: the map is initialized only after consent (map is non-null only if
\* userConsented is true); a declineConsent call changes neither
\* userConsented nor map, so it leaves userConsented false and the map
\* uninitialized when nothing was accepted before; userConsented never
\* returns to false; and while map is null an addNoiseMarker call returns
\* without adding a marker.
C28_MapOnlyAfterConsent ==
    /\ [](map => userConsented)
    /\ [][ /\ userConsented => userConsented'
           /\ ( /\ statusVars' # statusVars
                /\ Cardinality(statusTimers') >= Cardinality(statusTimers)
                /\ statusMessage' =
                      showStatus("Cannot proceed without consent for data processing.",
                                 "error") )
                 => /\ userConsented' = userConsented
                    /\ map' = map
                    /\ ~userConsented => (~userConsented' /\ ~map')
           /\ ~map => /\ markersOnMap' = markersOnMap
                      /\ Len(markerCalls') >= Len(markerCalls) ]_vars

\* consent was declined, and the addNoiseMarker call of an analysis returned
\* without a marker
C28_Witness ==
    /\ ~userConsented
    /\ ~map
    /\ statusMessage =
          showStatus("Cannot proceed without consent for data processing.", "error")
    /\ displayed = statusMessage
    /\ Len(markerCalls) = 1
    /\ markersOnMap = <<>>

-----------------------------------------------------------------------------
(* Monotonicity of the estimator (under SpecDisplay) and of the evaluator    *)
(* (under SpecWHO)                                                           *)

\* the order Safe < Exceeds Limit < Critical
severity(status) ==
    CASE status = "Within Safe Limits" -> 0
      [] status = "Exceeds WHO Daytime Limit" -> 1
      [] status = "Critical - Health Risk" -> 2

\* C17: for a fixed category (each of the six, and a name that gets the
\* default profile) the estimate baseline_db + confidence * 10 * weight does
\* not decrease when the confidence grows: the estimate displayed for a
\* confidence c is at most the estimate of every c2 >= c and at least the
\* estimate of every c2 <= c.
C17_EstimateMonotone ==
    (pc = "displayed" /\ soundClassConfig(results[1].name).hasProfile) =>
        /\ ~estimatedDb.nan
        /\ \A c2 \in DisplayConfidences :
              LET other == estimateDb([results[1] EXCEPT !.confidence = c2])
              IN  /\ ~other.nan
                  /\ results[1].confidence <= c2 => estimatedDb.v <= other.v
                  /\ c2 <= results[1].confidence => other.v <= estimatedDb.v

\* the default profile at confidence 0.5: 47.5 dB, above the 45 dB of 0
C17_Witness ==
    /\ pc = "displayed"
    /\ results[1].name = "Siren"
    /\ results[1].confidence = Unit \div 2
    /\ estimatedDb = Num(475000)
    /\ estimateDb([results[1] EXCEPT !.confidence = 0]) = Num(45 * DbUnit)

\* C18: the verdict does not lose severity when the level grows: for all
\* d1 <= d2, severity(getWHOStatus(d1)) <= severity(getWHOStatus(d2)).
C18_VerdictMonotone ==
    (pc = "evaluated" /\ ~noiseLevel.nan) =>
        \A d2 \in Levels :
            /\ noiseLevel.v <= d2 =>
                  severity(whoStatus.status) <= severity(getWHOStatus(Num(d2)).status)
            /\ d2 <= noiseLevel.v =>
                  severity(getWHOStatus(Num(d2)).status) <= severity(whoStatus.status)

\* C25: getWHOStatus of map-handler.js (thresholds 55 and 70 as literals) and
\* getWHOStatus of ml-models.js (WHO_STANDARDS) return the same status and
\* the same colour for every noise level.
C25_BothModulesSameVerdict ==
    (pc = "evaluated" /\ popupStatus # NoStatus) =>
        /\ popupStatus.status = whoStatus.status
        /\ popupStatus.color = whoStatus.color

\* both functions were applied to 70 dB and both answered Critical
C25_Witness ==
    /\ pc = "evaluated"
    /\ noiseLevel = Num(WHO_STANDARDS.CRITICAL_LIMIT * DbUnit)
    /\ popupStatus.status = "Critical - Health Risk"
    /\ whoStatus.status = "Critical - Health Risk"

\* just below 70 dB the verdict is Exceeds Limit, at 70 dB it is Critical
C18_Witness ==
    /\ pc = "evaluated"
    /\ noiseLevel = Num(WHO_STANDARDS.CRITICAL_LIMIT * DbUnit - 1)
    /\ severity(whoStatus.status) = 1
    /\ severity(getWHOStatus(Num(WHO_STANDARDS.CRITICAL_LIMIT * DbUnit)).status) = 2

-----------------------------------------------------------------------------
(* Properties of submitFeedback (under SpecFeedback) and of processAudioFile *)
(* (under SpecUpload)                                                        *)

\* C19: submitFeedback with non-blank text never propagates a failure:
\* whenever the request of a call ends (response.ok, a response that is not
\* ok, or a rejected fetch) the call completes, a success message is shown
\* and the feedback field is empty; only non-blank text is ever posted.
C19_FeedbackNeverFails ==
    [][ /\ \A k \in DOMAIN feedbackRequests : trim(feedbackRequests[k]) # <<>>
        /\ Len(feedbackRequests') < Len(feedbackRequests) =>
              /\ statusMessage'.type = "success"
              /\ displayed' = statusMessage'
              /\ feedbackText' = <<>>
              /\ feedbackOutcome' = "resolved" ]_vars

\* a request failed and the call ended with the message of the demo mode,
\* while another call is still waiting
C19_Witness ==
    /\ feedbackOutcome = "resolved"
    /\ statusMessage =
          showStatus("Feedback submitted! Thank you for your report.", "success")
    /\ feedbackText = <<>>
    /\ Len(feedbackRequests) = 1

\* the text is empty or consists of whitespace only
onlyWhitespace(text) == \A i \in DOMAIN text : text[i] \in Whitespace

\* C29: submitFeedback with empty or whitespace-only text shows an error
\* status, sends no request and leaves the field as it is: in a state with
\* such text no step adds a request, a step that is neither an edit, nor the
\* end of an earlier request, nor a status timer shows the error, and the
\* step that shows the error changes neither the requests nor the field.
C29_BlankFeedbackRejected ==
    [][ /\ onlyWhitespace(feedbackText) =>
              /\ Len(feedbackRequests') <= Len(feedbackRequests)
              /\ ( /\ feedbackText' = feedbackText
                   /\ feedbackRequests' = feedbackRequests
                   /\ Cardinality(statusTimers') >= Cardinality(statusTimers) )
                    => /\ statusMessage' =
                             showStatus("Please enter some feedback before submitting.",
                                        "error")
                       /\ displayed' = statusMessage'
        /\ ( /\ statusMessage' # statusMessage
             /\ statusMessage' =
                   showStatus("Please enter some feedback before submitting.", "error") )
              => /\ onlyWhitespace(feedbackText)
                 /\ feedbackRequests' = feedbackRequests
                 /\ feedbackText' = feedbackText ]_vars

\* whitespace (CR, U+00A0, U+2028) was submitted: the error is shown, nothing
\* was sent and the field still holds the whitespace
C29_Witness ==
    /\ feedbackText = <<13, 160, 8232>>
    /\ statusMessage =
          showStatus("Please enter some feedback before submitting.", "error")
    /\ feedbackRequests = <<>>
    /\ feedbackOutcome = "resolved"

\* the processAudioFile calls that await their classifyAudioYAMNet call
pendingUploads(tasks) ==
    Cardinality({i \in DOMAIN tasks : tasks[i].source = "upload"})

\* C20: every processAudioFile call that passed the consent and validation
\* checks has exactly one classifyAudioYAMNet call, which is either still
\* under way or has ended with exactly one of the two terminal messages
\* 'Audio analysis complete!' and 'Error processing audio. Please try
\* again.' (never both, never neither), and the step that ends the call
\* leaves one of the two on the page.
C20_OneCallOneTerminalStatus ==
    /\ [](uploads.accepted = pendingUploads(inFlight) + uploads.success + uploads.error)
    /\ [][ pendingUploads(inFlight') < pendingUploads(inFlight) =>
              /\ pendingUploads(inFlight') = pendingUploads(inFlight) - 1
              /\ statusMessage' \in
                    {showStatus("Audio analysis complete!", "success"),
                     showStatus("Error processing audio. Please try again.", "error")}
              /\ displayed' = statusMessage'
              /\ uploads'.success + uploads'.error
                    = uploads.success + uploads.error + 1 ]_vars

\* an accepted upload whose decoding failed ended with the success message
C20_Witness ==
    /\ uploads = [accepted |-> 1, success |-> 1, error |-> 0]
    /\ inFlight = <<>>
    /\ failure = "decode"
    /\ statusMessage = showStatus("Audio analysis complete!", "success")

-----------------------------------------------------------------------------
(* recommend_green_spaces_bangalore: urban-planning-map.js lines 111-185.    *)
(* Coordinates are in units of 0.0001 degree, costs in rupees.               *)

\* lines 117-158: the four areas in the order of the list; priority_score
\* (lines 421-429) is in hundredths
priority_areas ==
    << [location |-> <<129200, 776100>>, name |-> "HSR Layout Green Corridor",
        type |-> "linear_park", estimated_cost |-> 5000000,
        noise_reduction_db |-> 6, beneficiary_population |-> 25000,
        implementation_months |-> 8,
        justification |-> "High-density residential area with limited green cover"],
       [location |-> <<129950, 777050>>, name |-> "Marathahalli Noise Buffer Park",
        type |-> "buffer_park", estimated_cost |-> 8000000,
        noise_reduction_db |-> 8, beneficiary_population |-> 35000,
        implementation_months |-> 12,
        justification |-> "Major IT corridor with heavy traffic noise"],
       [location |-> <<128900, 776400>>, name |-> "Bommanahalli Urban Forest",
        type |-> "urban_forest", estimated_cost |-> 12000000,
        noise_reduction_db |-> 10, beneficiary_population |-> 50000,
        implementation_months |-> 18,
        justification |-> "Growing residential area near Electronic City"],
       [location |-> <<130350, 775950>>,
        name |-> "Hebbal Lake Restoration & Noise Barrier",
        type |-> "lake_restoration", estimated_cost |-> 15000000,
        noise_reduction_db |-> 12, beneficiary_population |-> 40000,
        implementation_months |-> 24,
        justification |-> "Major flyover noise impact mitigation"] >>

\* line 165: the key noise_reduction_db / (estimated_cost / 1000000) of x is
\* at least the key of y (the quotients compared by cross-multiplication)
keyAtLeast(x, y) ==
    x.noise_reduction_db * y.estimated_cost >= y.noise_reduction_db * x.estimated_cost

\* line 165: list.sort(key, reverse=True) is stable: an element goes behind
\* every element whose key is not smaller
insertByKey(sorted, x) ==
    LET k == Cardinality({i \in 1..Len(sorted) : keyAtLeast(sorted[i], x)})
    IN  SubSeq(sorted, 1, k) \o <<x>> \o SubSeq(sorted, k + 1, Len(sorted))

RECURSIVE sortByKey(_)
sortByKey(s) ==
    IF s = <<>> THEN <<>>
    ELSE insertByKey(sortByKey(SubSeq(s, 1, Len(s) - 1)), s[Len(s)])

\* lines 421-429: round(effectiveness + population_benefit, 2), in hundredths.
\* The sum in hundredths is q1 + q2 + r1 / cost + r2 / 100; the two fractions
\* together decide whether 0, 1 or 2 is added.  Defined for a noise
\* reduction of 0 to 20, a cost of 1 to 20000000 and a population of 0 to
\* 10000000, where the products stay below 2^31 and the doubles of the code
\* lie on the same side of a half as the exact sum; not defined where the exact
\* sum lies halfway between two hundredths, which a double need not hit.
calculate_green_space_priority(area) ==
    LET noise == area.noise_reduction_db
        cost == area.estimated_cost
        population == area.beneficiary_population
        q1 == (noise * 100000000) \div cost
        r1 == (noise * 100000000) % cost
        q2 == population \div 100
        r2 == population % 100
        half == 100 * r1 = (50 - r2) * cost
        oneAndHalf == r2 > 50 /\ 100 * r1 = (150 - r2) * cost
        aboveHalf == 100 * r1 > (50 - r2) * cost
        aboveOneAndHalf == r2 > 50 /\ 100 * r1 > (150 - r2) * cost
    IN  CASE /\ noise \in 0..20
             /\ cost \in 1..20000000
             /\ population \in 0..10000000
             /\ ~half
             /\ ~oneAndHalf ->
                q1 + q2 + (IF aboveOneAndHalf THEN 2 ELSE IF aboveHalf THEN 1 ELSE 0)

\* lines 173-181: the entry appended for an area; the two products with 0.8
\* and 0.3 are in tenths
recommendation(area) ==
    [location |-> area.location, name |-> area.name, type |-> area.type,
     estimated_cost |-> area.estimated_cost,
     noise_reduction_db |-> area.noise_reduction_db,
     beneficiary_population |-> area.beneficiary_population,
     implementation_months |-> area.implementation_months,
     justification |-> area.justification,
     priority_score |-> calculate_green_space_priority(area),
     environmental_benefits |->
        [air_quality_improvement |-> area.noise_reduction_db * 8,
         temperature_reduction_celsius |-> area.noise_reduction_db * 3,
         biodiversity_score |-> area.noise_reduction_db * 2]]

\* lines 170-172: the test of the bounds, both ends included
withinBounds(area, bounds) ==
    /\ bounds.south <= area.location[1]
    /\ area.location[1] <= bounds.north
    /\ bounds.west <= area.location[2]
    /\ area.location[2] <= bounds.east

\* Mutant of scan: the loop ends at the first area that is not appended.
RECURSIVE scanUntilMiss(_, _, _)
scanUntilMiss(areas, remaining_budget, bounds) ==
    IF areas = <<>> THEN <<>>
    ELSE IF /\ Head(areas).estimated_cost <= remaining_budget
            /\ withinBounds(Head(areas), bounds)
    THEN <<recommendation(Head(areas))>>
            \o scanUntilMiss(Tail(areas), remaining_budget - Head(areas).estimated_cost,
                             bounds)
    ELSE <<>>

\* lines 167-183: the loop over the sorted areas
RECURSIVE scan(_, _, _)
scan(areas, remaining_budget, bounds) ==
    IF areas = <<>> THEN <<>>
    ELSE IF /\ Head(areas).estimated_cost <= remaining_budget
            /\ withinBounds(Head(areas), bounds)
    THEN <<recommendation(Head(areas))>>
            \o scan(Tail(areas), remaining_budget - Head(areas).estimated_cost, bounds)
    ELSE scan(Tail(areas), remaining_budget, bounds)

\* lines 111-185
recommend_green_spaces_bangalore(bounds, b) == scan(sortByKey(priority_areas), b, bounds)

\* the largest budget, in million rupees
MaxBudget == 45

\* budgets: every million up to MaxBudget, a rupee less than the sums at
\* which another area fits, and two negative amounts
Budgets ==
    {k * 1000000 : k \in 0..MaxBudget} \cup {4999999, 12999999, 24999999, 39999999}
        \cup {0 - 1, 0 - 5000000}

\* bounds that hold all four areas, some of them, with areas on the edges
\* (12.92 south, 13.035 north, 77.595 west, 77.705 east), or none
AreaBounds ==
    [south : {128000, 129200, 129201}, north : {129100, 130350, 131000},
     west : {775000, 775950, 776200}, east : {777000, 777050, 778000}]

\* lines 111-185: one call of the planner
RecommendGreenSpaces ==
    /\ pc = "plan"
    /\ feasible_recommendations' = recommend_green_spaces_bangalore(area_bounds, budget)
    /\ pc' = "planned"
    /\ UNCHANGED <<yamnetResults, mappedResults, results, displayVars, noiseLevel,
                   classifyVars, appVars, mapVars, uploads, feedbackVars,
                   area_bounds, budget, popupStatus, uncertaintyLayer>>

PlannerInit ==
    /\ pc = "plan"
    /\ PipelineIdle
    /\ ClassifyIdle
    /\ PageLoaded
    /\ geolocation = TRUE
    /\ area_bounds \in AreaBounds
    /\ budget \in Budgets
    /\ feasible_recommendations = <<>>

PlannerNext == RecommendGreenSpaces

SpecPlanner == PlannerInit /\ [][PlannerNext]_vars

\* the area is one of those returned
recommended(area) ==
    \E i \in 1..Len(feasible_recommendations) :
        feasible_recommendations[i].name = area.name

\* the cost of the returned areas that rank in front of area
RECURSIVE costInFront(_, _)
costInFront(out, area) ==
    IF out = <<>> THEN 0
    ELSE (IF Head(out).noise_reduction_db * area.estimated_cost
                > area.noise_reduction_db * Head(out).estimated_cost
          THEN Head(out).estimated_cost ELSE 0)
         + costInFront(Tail(out), area)

\* the areas returned are areas of the list of four, none twice, in
\* descending order of noise reduction per cost; each lies within the bounds;
\* and an area is returned exactly when it lies within the bounds and its cost
\* fits the budget left by the returned areas that rank in front of it, so an
\* area that is left out does not end the scan
subsetOrderedWithinBounds ==
    LET out == feasible_recommendations
        areas == {priority_areas[i] : i \in 1..Len(priority_areas)}
    IN  /\ \A i \in 1..Len(out) : \E a \in areas :
              /\ out[i].name = a.name
              /\ out[i].location = a.location
              /\ out[i].estimated_cost = a.estimated_cost
              /\ out[i].noise_reduction_db = a.noise_reduction_db
        /\ \A i, j \in 1..Len(out) : i < j =>
              /\ out[i].name # out[j].name
              /\ out[i].noise_reduction_db * out[j].estimated_cost
                    >= out[j].noise_reduction_db * out[i].estimated_cost
        /\ \A i \in 1..Len(out) :
              /\ area_bounds.south <= out[i].location[1]
              /\ out[i].location[1] <= area_bounds.north
              /\ area_bounds.west <= out[i].location[2]
              /\ out[i].location[2] <= area_bounds.east
        /\ \A a \in areas :
              recommended(a) <=>
                  /\ area_bounds.south <= a.location[1]
                  /\ a.location[1] <= area_bounds.north
                  /\ area_bounds.west <= a.location[2]
                  /\ a.location[2] <= area_bounds.east
                  /\ a.estimated_cost <= budget - costInFront(feasible_recommendations, a)

\* the sum of the estimated costs of the areas returned
costOfAll ==
    costInFront(feasible_recommendations, [noise_reduction_db |-> 0, estimated_cost |-> 1])

\* C30 as stated: for every budget and every bounds the planner returns areas
\* of the list of four in descending order of noise reduction per cost, each
\* within the bounds, included exactly when within the bounds and fitting the
\* remaining budget, and their costs add up to no more than the budget.
C30_GreenSpacesForEveryBudget ==
    pc = "planned" =>
        /\ subsetOrderedWithinBounds
        /\ costOfAll <= budget

\* C30: for every budget and every bounds the planner returns areas of the
\* list of four, none twice, in descending order of noise reduction per cost;
\* each lies within the bounds; an area is returned exactly when it lies
\* within the bounds and its cost fits the budget left by the returned areas
\* that rank in front of it; for a budget that is not negative the costs add
\* up to no more than the budget, and for a negative budget nothing is
\* returned.
C30_GreenSpacesWithinBudgetAndBounds ==
    pc = "planned" =>
        /\ subsetOrderedWithinBounds
        /\ budget >= 0 => costOfAll <= budget
        /\ budget < 0 => feasible_recommendations = <<>>

\* the first area in the order lies outside the bounds and is left out, the
\* scan went on: the next two were returned and the last one did not fit
C30_Witness ==
    /\ pc = "planned"
    /\ area_bounds.west = 776200
    /\ budget = 20000000
    /\ Len(feasible_recommendations) = 2
    /\ feasible_recommendations[1].name = "Marathahalli Noise Buffer Park"
    /\ feasible_recommendations[2].name = "Bommanahalli Urban Forest"

-----------------------------------------------------------------------------
(* showStatus and its timers: audio-processor.js lines 152-171 *)

\* the messages that the handlers show: five of type success, ten of type
\* error and six of type info
StatusMessages ==
    {showStatus("Audio analysis complete!", "success"),
     showStatus("Recording analysis complete!", "success"),
     showStatus("Welcome! Your privacy is protected.", "success"),
     showStatus("Feedback submitted to server! Thank you for your report.", "success"),
     showStatus("Feedback submitted! Thank you for your report.", "success"),
     showStatus("Please accept consent first.", "error"),
     showStatus("Invalid file format. Use WAV, MP3, or M4A.", "error"),
     showStatus("File too large. Maximum 10MB allowed.", "error"),
     showStatus("Error processing audio. Please try again.", "error"),
     showStatus("Error: Unable to access microphone", "error"),
     showStatus("Error processing recording", "error"),
     showStatus("Please enter some feedback before submitting.", "error"),
     showStatus("Error initializing map", "error"),
     showStatus("Cannot proceed without consent for data processing.", "error"),
     showStatus("Analyzing audio with YAMNet...", "info"),
     showStatus("Processing recorded audio...", "info"),
     showStatus("Uncertainty visualization enabled", "info"),
     showStatus("Uncertainty visualization disabled", "info"),
     showStatus("Located at latitude, longitude", "info"),
     showStatus("Using default location (geolocation unavailable)", "info"),
     showStatus("Welcome to EcoSound Analyzer! Upload audio or start recording to begin.",
                "info")}

\* a call of showStatus(message, type), whoever makes it
ShowStatus(message, type) ==
    /\ Shows(message, type)
    /\ UNCHANGED <<pipelineVars, classifyVars, userConsented, map, geolocation,
                   geoSetupPending, recordingVars, pageVars>>

StatusNext ==
    \/ \E m \in StatusMessages : ShowStatus(m.message, m.type)
    \/ StatusTimerFires

SpecStatus == Init /\ [][StatusNext]_vars

\* C27: the status container holds at most one message, the one of the most
\* recent showStatus call unless it was removed; a success message that is
\* displayed has its 5 second timer pending and no other displayed message
\* has a timer; when a timer fires, either the displayed message is a
\* success message, the timer is its own and the container is empty
\* afterwards, or the displayed message stays, so the timer of an earlier
\* success message never removes the message of a later call and a message
\* of another type stays until a call replaces it.
C27_OneMessageOwnTimer ==
    /\ [](/\ Cardinality(container) <= 1
          /\ \A d \in container :
                /\ d = Len(statusDivs)
                /\ statusDivs[d] = statusMessage
                /\ statusDivs[d].type = "success" <=> d \in statusTimers
          /\ \A d \in statusTimers : statusDivs[d].type = "success")
    /\ [][ Cardinality(statusTimers') < Cardinality(statusTimers) =>
              \/ /\ container' = {}
                 /\ \E d \in container :
                       /\ statusDivs[d].type = "success"
                       /\ d \in statusTimers
                       /\ statusTimers' = statusTimers \ {d}
                       /\ statusDivs' = SubSeq(statusDivs, 1, d - 1)
              \/ /\ container # {}
                 /\ container' # {}
                 /\ statusDivs'[Len(statusDivs')] = statusDivs[Len(statusDivs)]
                 /\ statusMessage' = statusMessage ]_vars

\* an error message of a later call is displayed while the timer of an
\* earlier success message is pending
C27_Witness ==
    /\ Len(statusDivs) = 2
    /\ statusDivs[1].type = "success"
    /\ statusDivs[2].type = "error"
    /\ statusTimers = {1}
    /\ container = {2}

-----------------------------------------------------------------------------
(* toggleRecording called again while an earlier call awaits the microphone *)

\* the number of getUserMedia requests of a run
MaxMicRequests == 2

\* the recording handlers and the analysis of what was recorded
RecordingNext ==
    \/ ToggleRecordingUpTo(MaxMicRequests)
    \/ MicrophoneDenied
    \/ MicrophoneGranted
    \/ \E k \in 1..MaxMicRequests : OnStop(k)
    \/ RecordTimerFires
    \/ StatusTimerFires
    \/ \E i \in 1..MaxPending :
          \/ LoadModelOk(i)
          \/ LoadModelFails(i, AppRandomDraws, AppJitters)
          \/ DecodeOk(i)
          \/ DecodeFails(i, AppRandomDraws, AppJitters)
          \/ ClassifyOk(i, AppModelOutputs, AppJitters)
          \/ ClassifyFails(i, AppRandomDraws, AppJitters)
    \/ \E k \in 1..MaxMicRequests :
          \/ PositionObtained(k)
          \/ PositionFailed(k, AppJitters)

SpecRecording == Init /\ [][RecordingNext]_vars

\* C26: under any interleaving of toggleRecording calls, a second call made
\* while the first awaits the microphone included, at most one MediaRecorder
\* is active at a time, and a recorder that was started does not stay active
\* once recording is off and no request is pending.
C26_OneRecorderActive ==
    /\ Cardinality({k \in DOMAIN recorders : recorders[k] = "recording"}) <= 1
    /\ (~isRecording /\ micRequests = 0) =>
          \A k \in DOMAIN recorders : recorders[k] # "recording"

-----------------------------------------------------------------------------
(* classifyAudioYAMNet called again while earlier calls still await *)

\* the number of calls that may be awaiting at once
MaxOverlap == 2

\* ml-models.js lines 21-26: a call made while other calls are suspended at
\* an await; it tests window.yamnetModel at once and, finding it unset, starts
\* its own yamnet.load()
CallWhileAwaiting ==
    /\ Len(inFlight) < MaxOverlap
    /\ StartClassify("direct", DirectBlob)
    /\ UNCHANGED <<pipelineVars, yamnetModel, scores, failure, outcome, modelLoads,
                   appVars, pageVars>>

OverlapNext ==
    \/ CallWhileAwaiting
    \/ \E i \in 1..MaxOverlap :
          \/ LoadModelOk(i)
          \/ LoadModelFails(i, AppRandomDraws, AppJitters)
          \/ DecodeOk(i)
          \/ DecodeFails(i, AppRandomDraws, AppJitters)
          \/ ClassifyOk(i, SmallOutputs, AppJitters)
          \/ ClassifyFails(i, AppRandomDraws, AppJitters)

SpecOverlap == ClassifyInit /\ [][OverlapNext]_vars

\* C21: across any sequence of classifyAudioYAMNet calls, overlapping ones
\* included, yamnet.load() completes successfully at most once.
C21_ModelLoadedOnce == modelLoads <= 1

=============================================================================
